---------------------------- MODULE Spec2Model ----------------------------
(***************************************************************************)
(* A model of the relationship-intelligence store:                         *)
(*   - the import-merge engine, brain/human/ingest/linkedin.py              *)
(*   - the derivation library, brain/human/analysis/network_intel.py and    *)
(*     pattern_detect.py, goal_alignment.py                                 *)
(*   - the action-ranking layer, brain/human/analysis/run_all.py            *)
(*                                                                         *)
(* Python strings on which the code works character by character (names,   *)
(* identifiers, dates, domain tags) are tuples of one-character strings;    *)
(* enum-like strings that the code only compares for equality               *)
(* (relationship_strength, trust_level, energy, priority, type) are TLA+    *)
(* strings.  A Python value held in a dict is a tagged record, so that      *)
(* None, "", [] and a missing key stay distinct.                            *)
(***************************************************************************)
EXTENDS Integers, Sequences, FiniteSets, TLC

(***************************************************************************)
(* Characters and strings                                                  *)
(***************************************************************************)

\* The characters of the model in code-point order (Python compares str by code point).
Ascii ==
  << " ", ",", "-", ".", "/",
     "0", "1", "2", "3", "4", "5", "6", "7", "8", "9", ":",
     "A", "B", "C", "D", "E", "F", "G", "H", "I", "J", "K", "L", "M",
     "N", "O", "P", "Q", "R", "S", "T", "U", "V", "W", "X", "Y", "Z", "_",
     "a", "b", "c", "d", "e", "f", "g", "h", "i", "j", "k", "l", "m",
     "n", "o", "p", "q", "r", "s", "t", "u", "v", "w", "x", "y", "z" >>

Chars == {Ascii[i] : i \in 1..Len(Ascii)}

OrdTable == [c \in Chars |-> CHOOSE i \in 1..Len(Ascii) : Ascii[i] = c]

\* the rank of a character in code-point order
Ord(c) == OrdTable[c]

DigitChars == <<"0", "1", "2", "3", "4", "5", "6", "7", "8", "9">>

IsDigit(c) == c \in {"0", "1", "2", "3", "4", "5", "6", "7", "8", "9"}

DigitVal(c) == Ord(c) - Ord("0")

IsUpper(c) == Ord("A") <= Ord(c) /\ Ord(c) <= Ord("Z")

IsLower(c) == Ord("a") <= Ord(c) /\ Ord(c) <= Ord("z")

\* str.lower() on one character
LowerChar(c) == IF IsUpper(c) THEN Ascii[Ord(c) + (Ord("a") - Ord("A"))] ELSE c

\* str.lower()
Lower(s) == [i \in 1..Len(s) |-> LowerChar(s[i])]

\* a < b for Python str
RECURSIVE StrLess(_, _)
StrLess(a, b) ==
  IF b = <<>> THEN FALSE
  ELSE IF a = <<>> THEN TRUE
  ELSE IF a[1] = b[1] THEN StrLess(Tail(a), Tail(b))
  ELSE Ord(a[1]) < Ord(b[1])

RECURSIVE LStrip(_)
LStrip(s) == IF s # <<>> /\ s[1] = " " THEN LStrip(Tail(s)) ELSE s

RECURSIVE RStrip(_)
RStrip(s) ==
  IF s # <<>> /\ s[Len(s)] = " " THEN RStrip(SubSeq(s, 1, Len(s) - 1)) ELSE s

\* str.strip() (the model's only whitespace character is the space)
Strip(s) == RStrip(LStrip(s))

\* str(n) for a non-negative int
RECURSIVE IntToStr(_)
IntToStr(n) ==
  IF n < 10 THEN <<DigitChars[n + 1]>>
  ELSE IntToStr(n \div 10) \o <<DigitChars[(n % 10) + 1]>>

\* int(s) for a string of digits
RECURSIVE StrToInt(_)
StrToInt(s) ==
  IF s = <<>> THEN 0
  ELSE 10 * StrToInt(SubSeq(s, 1, Len(s) - 1)) + DigitVal(s[Len(s)])

AllDigits(s) == \A i \in 1..Len(s) : IsDigit(s[i])

\* the pieces of s from position start on, cut at each sep found from i on
RECURSIVE SplitFrom(_, _, _, _)
SplitFrom(s, sep, i, start) ==
  IF i > Len(s) THEN <<SubSeq(s, start, Len(s))>>
  ELSE IF s[i] = sep
       THEN <<SubSeq(s, start, i - 1)>> \o SplitFrom(s, sep, i + 1, i + 1)
       ELSE SplitFrom(s, sep, i + 1, start)

\* s.split(sep) for a one-character separator
Split(s, sep) == SplitFrom(s, sep, 1, 1)

NonEmptyStr(t) == t # <<>>

\* the fields separated by runs of whitespace (the \s+ of a strptime format)
Words(s) == SelectSeq(Split(s, " "), NonEmptyStr)

(***************************************************************************)
(* Python values                                                           *)
(***************************************************************************)

None == [t |-> "none"]

Absent == [t |-> "absent"]

S(v) == [t |-> "str", v |-> v]

L(v) == [t |-> "list", v |-> v]

I(n) == [t |-> "int", v |-> n]

\* bool(x): None, "", [] and 0 are falsy
Truthy(x) ==
  CASE x.t = "str" -> Len(x.v) > 0
    [] x.t = "list" -> Len(x.v) > 0
    [] x.t = "int" -> x.v # 0
    [] OTHER -> FALSE

\* dict.get(key): a missing key reads as None
Get(d, f) == IF d[f] = Absent THEN None ELSE d[f]

\* dict.get(key, default)
GetOr(d, f, default) == IF d[f] = Absent THEN default ELSE d[f]

\* x or y
Or(x, y) == IF Truthy(x) THEN x ELSE y

(***************************************************************************)
(* linkedin.py: dates                                                      *)
(***************************************************************************)

MonthAbbr ==
  << <<"j","a","n">>, <<"f","e","b">>, <<"m","a","r">>, <<"a","p","r">>,
     <<"m","a","y">>, <<"j","u","n">>, <<"j","u","l">>, <<"a","u","g">>,
     <<"s","e","p">>, <<"o","c","t">>, <<"n","o","v">>, <<"d","e","c">> >>

\* strptime's %Y: exactly four digits
IsY(tok) == Len(tok) = 4 /\ AllDigits(tok)

\* strptime's %m: 1[0-2] | 0[1-9] | [1-9]
IsM(tok) ==
  /\ Len(tok) \in {1, 2}
  /\ AllDigits(tok)
  /\ StrToInt(tok) \in 1..12

\* strptime's %d: 3[01] | [12]\d | 0[1-9] | [1-9] | " "[1-9]
IsD(tok) ==
  \/ /\ Len(tok) \in {1, 2}
     /\ AllDigits(tok)
     /\ StrToInt(tok) \in 1..31
  \/ /\ Len(tok) = 2
     /\ tok[1] = " "
     /\ IsDigit(tok[2])
     /\ tok[2] # "0"

\* strptime's %b: an abbreviated month name, whatever its case
IsB(tok) == \E i \in 1..12 : MonthAbbr[i] = Lower(tok)

MonthOf(tok) == CHOOSE i \in 1..12 : MonthAbbr[i] = Lower(tok)

DayOf(tok) == IF tok[1] = " " THEN DigitVal(tok[2]) ELSE StrToInt(tok)

IsLeap(y) == (y % 4 = 0 /\ y % 100 # 0) \/ y % 400 = 0

DaysIn(m, y) ==
  IF m = 2 THEN (IF IsLeap(y) THEN 29 ELSE 28)
  ELSE IF m \in {4, 6, 9, 11} THEN 30 ELSE 31

\* datetime(y, m, d) accepts the date
ValidDate(y, m, d) == y >= 1 /\ m \in 1..12 /\ d >= 1 /\ d <= DaysIn(m, y)

Pad2(n) == IF n < 10 THEN <<"0">> \o IntToStr(n) ELSE IntToStr(n)

\* strftime("%Y-%m-%d")
Strftime(y, m, d) == IntToStr(y) \o <<"-">> \o Pad2(m) \o <<"-">> \o Pad2(d)

NoParse == [ok |-> FALSE, y |-> 0, m |-> 0, d |-> 0]

Parsed(y, m, d) ==
  IF ValidDate(y, m, d) THEN [ok |-> TRUE, y |-> y, m |-> m, d |-> d] ELSE NoParse

\* datetime.strptime(s, fmt) for the five formats of _parse_date, and for the
\* "%Y-%m-%d" of stale_relationships (fmt 3); ok = FALSE is ValueError
Strptime(s, fmt) ==
  LET w == Words(s)
      dash == Split(s, "-")
      slash == Split(s, "/")
  IN  CASE fmt = 1 ->  \* "%d %b %Y"
             IF Len(w) = 3 /\ IsD(w[1]) /\ IsB(w[2]) /\ IsY(w[3])
                /\ s[1] # " " /\ s[Len(s)] # " "
             THEN Parsed(StrToInt(w[3]), MonthOf(w[2]), DayOf(w[1])) ELSE NoParse
        [] fmt = 2 ->  \* "%b %d, %Y"
             IF /\ Len(w) = 3 /\ IsB(w[1]) /\ IsY(w[3])
                /\ Len(w[2]) >= 2 /\ w[2][Len(w[2])] = ","
                /\ IsD(SubSeq(w[2], 1, Len(w[2]) - 1))
                /\ s[1] # " " /\ s[Len(s)] # " "
             THEN Parsed(StrToInt(w[3]), MonthOf(w[1]),
                         DayOf(SubSeq(w[2], 1, Len(w[2]) - 1)))
             ELSE NoParse
        [] fmt = 3 ->  \* "%Y-%m-%d"
             IF Len(dash) = 3 /\ IsY(dash[1]) /\ IsM(dash[2]) /\ IsD(dash[3])
             THEN Parsed(StrToInt(dash[1]), StrToInt(dash[2]), DayOf(dash[3]))
             ELSE NoParse
        [] fmt = 4 ->  \* "%m/%d/%Y"
             IF Len(slash) = 3 /\ IsM(slash[1]) /\ IsD(slash[2]) /\ IsY(slash[3])
             THEN Parsed(StrToInt(slash[3]), StrToInt(slash[1]), DayOf(slash[2]))
             ELSE NoParse
        [] OTHER ->    \* "%d/%m/%Y"
             IF Len(slash) = 3 /\ IsD(slash[1]) /\ IsM(slash[2]) /\ IsY(slash[3])
             THEN Parsed(StrToInt(slash[3]), StrToInt(slash[2]), DayOf(slash[1]))
             ELSE NoParse

\* LinkedInParser._parse_date: the first format that parses wins; a string no
\* format parses is returned as it came
RECURSIVE TryFormats(_, _, _)
TryFormats(date_str, stripped, fmt) ==
  IF fmt > 5 THEN S(date_str)
  ELSE LET p == Strptime(stripped, fmt)
       IN  IF p.ok THEN S(Strftime(p.y, p.m, p.d))
           ELSE TryFormats(date_str, stripped, fmt + 1)

parse_date(date_str) ==
  IF date_str = <<>> THEN None ELSE TryFormats(date_str, Strip(date_str), 1)

(***************************************************************************)
(* linkedin.py: Connection                                                 *)
(***************************************************************************)

\* the fields the merge preserves (export_network's list, in its order)
ManualFields ==
  << "context", "domains", "can_ask_for", "has_asked_you", "introduces_to",
     "notes", "last_contact", "contact_frequency", "positives", "negatives",
     "trust_level", "energy" >>

\* the keys of Connection.to_dict()
DictKeys ==
  { "id", "name", "email", "company", "position", "connected_date",
    "relationship_strength", "message_count", "last_message" }
  \cup { ManualFields[i] : i \in 1..Len(ManualFields) }

\* Connection(id=..., name=..., ...): the dataclass with its defaults
Connection(id, first_name, last_name, email, company, position, connected_date) ==
  [ id |-> id,
    name |-> first_name \o <<" ">> \o last_name,
    first_name |-> first_name,
    last_name |-> last_name,
    email |-> email,
    company |-> company,
    position |-> position,
    connected_date |-> connected_date,
    relationship_strength |-> S("cold"),
    message_count |-> I(0),
    last_message |-> None,
    context |-> S(<<>>),
    domains |-> L(<<>>),
    can_ask_for |-> L(<<>>),
    has_asked_you |-> L(<<>>),
    introduces_to |-> L(<<>>),
    notes |-> S(<<>>),
    last_contact |-> None,
    contact_frequency |-> None,
    positives |-> L(<<>>),
    negatives |-> L(<<>>),
    trust_level |-> None,
    energy |-> None ]

\* Connection.to_dict: every field but first_name and last_name
to_dict(conn) == [f \in DictKeys |-> conn[f]]

(***************************************************************************)
(* linkedin.py: parse_connections                                          *)
(***************************************************************************)

IsAlnumLower(c) == IsDigit(c) \/ IsLower(c)

\* re.sub(r'[^a-z0-9]', '', s.lower())
clean(s) == SelectSeq(Lower(s), IsAlnumLower)

\* LinkedInParser._make_id
make_id(first_name, last_name) ==
  <<"c", "o", "n", "n", ".">> \o clean(first_name) \o <<"-">> \o clean(last_name)

HasId(conns, id) == \E i \in 1..Len(conns) : conns[i].id = id

\* mutant: the suffix is the row's place in the batch
NextFreeId_ByPlace(conns, conn_id, base_id, counter) ==
  IF conns = <<>> THEN conn_id
  ELSE base_id \o <<"-">> \o IntToStr(Len(conns) + 1)

\* the while loop of parse_connections: the first of base, base-2, base-3, ...
\* that is no key of self.connections
RECURSIVE NextFreeId(_, _, _, _)
NextFreeId(conns, conn_id, base_id, counter) ==
  IF HasId(conns, conn_id)
  THEN NextFreeId(conns, base_id \o <<"-">> \o IntToStr(counter), base_id, counter + 1)
  ELSE conn_id

\* x.strip() or None
StripOrNone(x) == IF Strip(x) = <<>> THEN None ELSE S(Strip(x))

\* self.connections[conn_id] = conn: a new key goes last, a key already there
\* keeps its place
PutConn(conns, conn) ==
  IF HasId(conns, conn.id)
  THEN [i \in 1..Len(conns) |-> IF conns[i].id = conn.id THEN conn ELSE conns[i]]
  ELSE Append(conns, conn)

\* mutant: the record stored under the free key carries the base identifier
ParseRow_BaseId(conns, row) ==
  LET first_name == Strip(row.first)
      last_name == Strip(row.last)
  IN  IF first_name = <<>> THEN conns
      ELSE Append(conns,
             Connection(make_id(first_name, last_name), first_name, last_name,
                        StripOrNone(row.email), StripOrNone(row.company),
                        StripOrNone(row.position), parse_date(row.connected_on)))

\* one row of Connections.csv
ParseRow(conns, row) ==
  LET first_name == Strip(row.first)
      last_name == Strip(row.last)
      base_id == make_id(first_name, last_name)
      conn_id == NextFreeId(conns, base_id, base_id, 2)
  IN  IF first_name = <<>> THEN conns
      ELSE PutConn(conns,
             Connection(conn_id, first_name, last_name,
                        StripOrNone(row.email), StripOrNone(row.company),
                        StripOrNone(row.position), parse_date(row.connected_on)))

\* the for loop of parse_connections over the rows of the file
RECURSIVE ParseRows(_, _)
ParseRows(conns, rows) ==
  IF rows = <<>> THEN conns
  ELSE ParseRows(ParseRow(conns, Head(rows)), Tail(rows))

(***************************************************************************)
(* linkedin.py: parse_messages                                             *)
(***************************************************************************)

CloseThreshold == 10

WarmThreshold == 3

\* self.messages.get(name, [])
MsgsOf(msgs, name) == IF name \in DOMAIN msgs THEN msgs[name] ELSE <<>>

\* one row of Messages.csv: self.messages[sender].append({...}) when sender is set
AddMessage(msgs, row) ==
  LET sender == Strip(row.sender)
      m == [date |-> parse_date(Strip(row.date)), sender |-> sender]
  IN  IF sender = <<>> THEN msgs
      ELSE IF sender \in DOMAIN msgs
           THEN [msgs EXCEPT ![sender] = Append(@, m)]
           ELSE msgs @@ (sender :> <<m>>)

RECURSIVE AddMessages(_, _)
AddMessages(msgs, rows) ==
  IF rows = <<>> THEN msgs
  ELSE AddMessages(AddMessage(msgs, Head(rows)), Tail(rows))

\* max() of a non-empty list of str
RECURSIVE MaxStr(_)
MaxStr(dates) ==
  IF Len(dates) = 1 THEN dates[1]
  ELSE LET rest == MaxStr(Tail(dates))
       IN  IF StrLess(dates[1], rest) THEN rest ELSE dates[1]

HasDate(m) == Truthy(m.date)

\* mutant: ">" in place of ">="
StrengthOf_Strict(n) ==
  IF n > CloseThreshold THEN "close"
  ELSE IF n > WarmThreshold THEN "warm"
  ELSE "cold"

\* the thresholds of parse_messages
StrengthOf(n) ==
  IF n >= CloseThreshold THEN "close"
  ELSE IF n >= WarmThreshold THEN "warm"
  ELSE "cold"

\* mutant: the rows of the first name are counted with those of the full name
Attribute_BothNames(conn, msgs) ==
  LET found == MsgsOf(msgs, conn.name) \o MsgsOf(msgs, conn.first_name)
      dated == SelectSeq(found, HasDate)
      dates == [i \in 1..Len(dated) |-> dated[i].date.v]
  IN  IF found = <<>>
      THEN [conn EXCEPT !.message_count = I(0)]
      ELSE [conn EXCEPT
              !.message_count = I(Len(found)),
              !.last_message = IF dates = <<>> THEN @ ELSE S(MaxStr(dates)),
              !.relationship_strength = S(StrengthOf(Len(found)))]

\* mutant: only the connection that holds the bare identifier of its name is
\* given messages
Attribute_BareIdOnly(conn, msgs) ==
  LET found == IF conn.id = make_id(conn.first_name, conn.last_name)
               THEN MsgsOf(msgs, conn.name) ELSE <<>>
      dated == SelectSeq(found, HasDate)
      dates == [i \in 1..Len(dated) |-> dated[i].date.v]
  IN  IF found = <<>>
      THEN [conn EXCEPT !.message_count = I(0)]
      ELSE [conn EXCEPT
              !.message_count = I(Len(found)),
              !.last_message = IF dates = <<>> THEN @ ELSE S(MaxStr(dates)),
              !.relationship_strength = S(StrengthOf(Len(found)))]

\* the body of the loop "for conn_id, conn in self.connections.items()"
Attribute(conn, msgs) ==
  LET byName == MsgsOf(msgs, conn.name)
      found == IF byName = <<>> THEN MsgsOf(msgs, conn.first_name) ELSE byName
      dated == SelectSeq(found, HasDate)
      dates == [i \in 1..Len(dated) |-> dated[i].date.v]
  IN  IF found = <<>>
      THEN [conn EXCEPT !.message_count = I(0)]
      ELSE [conn EXCEPT
              !.message_count = I(Len(found)),
              !.last_message = IF dates = <<>> THEN @ ELSE S(MaxStr(dates)),
              !.relationship_strength = S(StrengthOf(Len(found)))]

AttributeAll(conns, msgs) == [i \in 1..Len(conns) |-> Attribute(conns[i], msgs)]

(***************************************************************************)
(* linkedin.py: compute_stats and export_network                           *)
(***************************************************************************)

\* stats["by_relationship"][strength]: the connections of that strength
CountStrength(conns, strength) ==
  Cardinality({i \in 1..Len(conns) : conns[i].relationship_strength = S(strength)})

\* the tags of a domains list, as a set
TagsOf(domains) == {domains[i] : i \in 1..Len(domains)}

Occurrences(domains, tag) == Cardinality({i \in 1..Len(domains) : domains[i] = tag})

RECURSIVE SumOver(_, _)
SumOver(n, f) == IF n = 0 THEN 0 ELSE f[n] + SumOver(n - 1, f)

\* LinkedInParser.compute_stats, over self.connections
compute_stats(conns, six_months_ago) ==
  LET n == Len(conns)
      IsStrength(i, s) == conns[i].relationship_strength = S(s)
      IsWarm(i) == IsStrength(i, "warm")
      IsClose(i) == IsStrength(i, "close")
      tags == UNION {TagsOf(conns[i].domains.v) : i \in 1..n}
      stale(i) == /\ IsWarm(i) \/ IsClose(i)
                  /\ Truthy(conns[i].last_message)
                  /\ StrLess(conns[i].last_message.v, six_months_ago)
      staleIdx == SelectSeq([i \in 1..n |-> i], stale)
  IN  [ total |-> n,
        by_relationship |->
          [cold |-> CountStrength(conns, "cold"), warm |-> CountStrength(conns, "warm"),
           close |-> CountStrength(conns, "close")],
        by_domain |->
          [t \in tags |->
             SumOver(n, [i \in 1..n |-> Occurrences(conns[i].domains.v, t)])],
        stale_relationships |-> [k \in 1..Len(staleIdx) |-> conns[staleIdx[k]].id] ]

\* network.yaml: absent, or the data export_network wrote (and the user edited)
NoFile == [exists |-> FALSE, connections |-> <<>>]

\* the keys of "existing": the ids of the stored connections
ExistingIds(file, preserve_manual) ==
  IF preserve_manual /\ file.exists
  THEN {file.connections[i].id : i \in 1..Len(file.connections)}
  ELSE {}

\* mutant: the stored record after the one with the identifier (an index off by one)
ExistingGet_OffByOne(file, conn_id) ==
  LET k == CHOOSE i \in 1..Len(file.connections) : file.connections[i].id = conn_id
  IN  file.connections[(k % Len(file.connections)) + 1]

\* existing[conn_id]: of several stored records with one id the last one stays
ExistingGet(file, conn_id) ==
  LET k == CHOOSE i \in 1..Len(file.connections) :
             /\ file.connections[i].id = conn_id
             /\ \A j \in (i + 1)..Len(file.connections) :
                  file.connections[j].id # conn_id
  IN  file.connections[k]

\* mutant: relationship_strength listed among the preserved fields
IsManual_WithStrength(f) ==
  f = "relationship_strength" \/ \E i \in 1..Len(ManualFields) : ManualFields[i] = f

IsManual(f) == \E i \in 1..Len(ManualFields) : ManualFields[i] = f

\* mutant: "if field in old" in place of "if old.get(field)"
PreserveManual_KeyPresent(conn_dict, old) ==
  [f \in DictKeys |->
     IF IsManual(f) /\ old[f] # Absent THEN old[f] ELSE conn_dict[f]]

\* "if old.get(field): conn_dict[field] = old[field]" for each manual field
PreserveManual(conn_dict, old) ==
  [f \in DictKeys |->
     IF IsManual(f) /\ Truthy(Get(old, f)) THEN old[f] ELSE conn_dict[f]]

\* the merge loop of export_network for one connection
MergeOne(conn, file, preserve_manual) ==
  IF conn.id \in ExistingIds(file, preserve_manual)
  THEN PreserveManual(to_dict(conn), ExistingGet(file, conn.id))
  ELSE to_dict(conn)

\* strength_order.get(c['relationship_strength'], 3)
strength_order(c) ==
  CASE c.relationship_strength = S("close") -> 0
    [] c.relationship_strength = S("warm") -> 1
    [] c.relationship_strength = S("cold") -> 2
    [] OTHER -> 3

\* mutant: the sort key is the name alone
KeyLess_NameOnly(a, b) == StrLess(a.name, b.name)

\* the sort key (strength_order, name): a's key is less than b's
KeyLess(a, b) ==
  \/ strength_order(a) < strength_order(b)
  \/ strength_order(a) = strength_order(b) /\ StrLess(a.name, b.name)

\* list.sort is stable: c goes behind every element whose key is not greater
RECURSIVE InsertByKey(_, _)
InsertByKey(sorted, c) ==
  IF sorted = <<>> THEN <<c>>
  ELSE IF KeyLess(c, sorted[Len(sorted)])
       THEN Append(InsertByKey(SubSeq(sorted, 1, Len(sorted) - 1), c),
                   sorted[Len(sorted)])
       ELSE Append(sorted, c)

RECURSIVE SortConnections(_)
SortConnections(cs) ==
  IF cs = <<>> THEN <<>>
  ELSE InsertByKey(SortConnections(SubSeq(cs, 1, Len(cs) - 1)), cs[Len(cs)])

\* the data export_network writes to network.yaml
export_network(conns, file, preserve_manual, six_months_ago) ==
  LET merged == [i \in 1..Len(conns) |-> MergeOne(conns[i], file, preserve_manual)]
      existing == ExistingIds(file, preserve_manual)
  IN  [ exists |-> TRUE,
        connections |-> SortConnections(merged),
        stats |-> compute_stats(conns, six_months_ago),
        import_log |->
          [ connections_added |-> Len(merged) - Cardinality(existing),
            connections_updated |-> Cardinality(existing) ] ]

(***************************************************************************)
(* The inputs of an import: Connections.csv, Messages.csv, the clock, and  *)
(* the user's edits of network.yaml between imports                        *)
(***************************************************************************)

\* the most rows a Connections.csv of the model holds
MaxRows == 2

NameAl == <<"A", "l">>

NameBo == <<"B", "o">>

NameAlBo == <<"A", "l", " ", "B", "o">>

NameAlB_o == <<"A", "l", " ", "B", "-", "o">>

IsoJan15 == <<"2", "0", "2", "3", "-", "0", "1", "-", "1", "5">>

IsoJun30 == <<"2", "0", "2", "4", "-", "0", "6", "-", "3", "0">>

\* a date as LinkedIn writes it in Messages.csv, which no format of _parse_date parses
RawUtc == <<"2", "0", "2", "4", "-", "0", "7", "-", "0", "1", " ",
            "1", "0", ":", "3", "0", " ", "U", "T", "C">>

ConnRow(first, last, company, connected_on) ==
  [ first |-> first, last |-> last, email |-> <<>>, company |-> company,
    position |-> <<>>, connected_on |-> connected_on ]

\* rows of Connections.csv: two people whose names normalise to one identifier,
\* and a row without a first name
ConnectionsRows ==
  { ConnRow(NameAl, NameBo, <<"X">>,
            <<"1", "5", " ", "J", "a", "n", " ", "2", "0", "2", "3">>),
    ConnRow(<<"A", "l", " ">>, <<"B", "-", "o">>, <<" ">>,
            <<"0", "6", "/", "3", "0", "/", "2", "0", "2", "4">>),
    ConnRow(<<" ">>, NameBo, <<>>, <<>>) }

SeqsUpTo(set, n) == UNION {[1..k -> set] : k \in 0..n}

Rep(n, x) == [i \in 1..n |-> x]

MsgRow(sender, date) == [sender |-> sender, date |-> date]

\* Messages.csv files: 10 + 3 and 9 + 2 messages, with dates in three forms and
\* a row without a sender
MessagesFiles ==
  { Rep(9, MsgRow(NameAlBo, IsoJan15))
      \o <<MsgRow(<<" ">>, IsoJan15), MsgRow(NameAlBo, RawUtc)>>
      \o Rep(3, MsgRow(<<"A", "l", " ">>,
                       <<"0", "6", "/", "3", "0", "/", "2", "0", "2", "4">>)),
    Rep(9, MsgRow(NameAlBo, IsoJan15)) \o Rep(2, MsgRow(NameAlB_o, <<>>)) }

\* (now - 180 days).strftime("%Y-%m-%d") at the time of an export
SixMonthsAgo == { <<"2", "0", "2", "4", "-", "0", "1", "-", "0", "1">> }

\* what a user writes into a stored connection: every manual field filled, and
\* the relationship strength overridden
Enriched ==
  [ context |-> S(<<"c">>), domains |-> L(<< <<"a", "i">> >>),
    can_ask_for |-> L(<< <<"x">> >>), has_asked_you |-> L(<< <<"y">> >>),
    introduces_to |-> L(<< <<"v", "c">> >>), notes |-> S(<<"n">>),
    last_contact |-> S(IsoJan15), contact_frequency |-> S(<<"m">>),
    positives |-> L(<< <<"k", "i", "n", "d">> >>),
    negatives |-> L(<< <<"l", "a", "t", "e">> >>),
    trust_level |-> S("high"), energy |-> S("draining"),
    relationship_strength |-> S("close"), company |-> S(<<"Z">>),
    message_count |-> I(99), last_message |-> S(IsoJun30) ]

\* every manual field emptied, each in one of the ways YAML can say so
Cleared ==
  [ context |-> None, domains |-> None, can_ask_for |-> Absent,
    has_asked_you |-> L(<<>>), introduces_to |-> Absent, notes |-> None,
    last_contact |-> S(<<>>), contact_frequency |-> S(<<>>),
    positives |-> None, negatives |-> Absent,
    trust_level |-> S(""), energy |-> Absent ]

EditProfiles == {Enriched, Cleared}

\* the stored connection c after the user's edit
Edited(c, profile) ==
  [f \in DictKeys |-> IF f \in DOMAIN profile THEN profile[f] ELSE c[f]]

\* a manual field of the stored connection c is not as an import without
\* enrichment writes it
CarriesEdits(c) ==
  \E i \in 1..Len(ManualFields) :
    c[ManualFields[i]] # Connection(c.id, <<>>, <<>>, None, None, None, None)[ManualFields[i]]

NoneCarriesEdits(cs) == \A i \in 1..Len(cs) : ~CarriesEdits(cs[i])

(***************************************************************************)
(* State                                                                   *)
(***************************************************************************)

VARIABLES
  file,        \* network.yaml
  conns,       \* LinkedInParser.connections, in insertion order
  messages,    \* LinkedInParser.messages
  pc,          \* where main() of linkedin.py is
  origin,      \* the parser connections whose export wrote file, if none edited it since
  existing,    \* at pc = "exported": network.yaml and its origin before the export
  preserve,    \* at pc = "exported": the preserve_manual of the export
  goals,       \* goals.yaml
  result       \* what the last call of an analysis function gave

vars == <<file, conns, messages, pc, origin, existing, preserve, goals, result>>

\* what an import leaves alone
analysis == <<goals, result>>

\* what an analysis call leaves alone
parser == <<conns, messages, pc, origin, existing, preserve>>

NoOrigin == [set |-> FALSE, conns |-> <<>>]

NoExisting == [file |-> NoFile, origin |-> NoOrigin]

NoMessages == [x \in {} |-> <<>>]

NoGoals == [exists |-> FALSE, misalignments |-> <<>>, avoided_actions |-> <<>>]

NoResult == [op |-> "none"]

Init ==
  /\ file = NoFile
  /\ conns = <<>>
  /\ messages = NoMessages
  /\ pc = "new"
  /\ origin = NoOrigin
  /\ existing = NoExisting
  /\ preserve = TRUE
  /\ goals = NoGoals
  /\ result = NoResult

\* parser = LinkedInParser(export_path)
NewParser ==
  /\ pc \in {"exported", "edited"}
  /\ conns' = <<>>
  /\ messages' = NoMessages
  /\ pc' = "new"
  /\ existing' = NoExisting
  /\ preserve' = TRUE
  /\ UNCHANGED <<file, origin, analysis>>

\* parse_connections: Connections.csv is missing, or its rows are read
ParseConnections ==
  /\ pc = "new"
  /\ pc' = "connections"
  /\ \/ UNCHANGED conns
     \/ \E rows \in SeqsUpTo(ConnectionsRows, MaxRows) : conns' = ParseRows(conns, rows)
  /\ UNCHANGED <<file, messages, origin, existing, preserve, analysis>>

\* parse_messages: Messages.csv is missing, or its rows are read and every
\* connection's count, last message and strength are set
ParseMessages ==
  /\ pc = "connections"
  /\ pc' = "messages"
  /\ \/ UNCHANGED <<conns, messages>>
     \/ \E rows \in MessagesFiles :
          /\ messages' = AddMessages(messages, rows)
          /\ conns' = AttributeAll(conns, messages')
  /\ UNCHANGED <<file, origin, existing, preserve, analysis>>

\* export_network(output_path, preserve_manual)
ExportNetwork ==
  /\ pc = "messages"
  /\ pc' = "exported"
  /\ \E p \in BOOLEAN, six_months_ago \in SixMonthsAgo :
       /\ preserve' = p
       /\ file' = export_network(conns, file, p, six_months_ago)
  /\ existing' = [file |-> file, origin |-> origin]
  /\ origin' = [set |-> TRUE, conns |-> conns]
  /\ UNCHANGED <<conns, messages, analysis>>

\* between imports the user edits one stored connection of network.yaml, when
\* none carries edits yet
ManualEdit ==
  /\ pc = "exported"
  /\ pc' = "edited"
  /\ NoneCarriesEdits(file.connections)
  /\ \E i \in 1..Len(file.connections), profile \in EditProfiles :
       file' = [file EXCEPT !.connections[i] = Edited(@, profile)]
  /\ origin' = NoOrigin
  /\ existing' = NoExisting
  /\ preserve' = TRUE
  /\ UNCHANGED <<conns, messages, analysis>>

Next ==
  \/ NewParser
  \/ ParseConnections
  \/ ParseMessages
  \/ ExportNetwork
  \/ ManualEdit

Spec == Init /\ [][Next]_vars

(***************************************************************************)
(* The import-merge engine: properties                                     *)
(***************************************************************************)

IdsOf(cs) == {cs[i].id : i \in 1..Len(cs)}

\* the parser's connection with this identifier, as export_network writes it
FreshOf(conn_id) ==
  to_dict(conns[CHOOSE i \in 1..Len(conns) : conns[i].id = conn_id])

\* the record the snapshot held for this identifier before the export
OldOf(conn_id) ==
  existing.file.connections[
    CHOOSE i \in 1..Len(existing.file.connections) :
      existing.file.connections[i].id = conn_id]

\* an export with preserve_manual on has just written network.yaml
Merged == pc = "exported" /\ preserve

\* the positions of the output whose identifier the snapshot already held
InBoth == {j \in 1..Len(file.connections) :
             file.connections[j].id \in IdsOf(existing.file.connections)}

\* empty or absent: a missing key, None, "" or []
IsEmpty(x) == x.t \in {"absent", "none"} \/ (x.t \in {"str", "list"} /\ Len(x.v) = 0)

\* C1: after an import with preserve_manual on, for every identifier in both the
\* existing snapshot and the batch, each manual-enrichment field whose existing
\* value is non-empty keeps that value, and a field whose existing value is empty
\* or absent takes the freshly imported value.
C1_ManualFieldsPreserved ==
  Merged =>
    \A j \in InBoth : \A k \in 1..Len(ManualFields) :
      LET f == ManualFields[k]
          out == file.connections[j]
          old == OldOf(out.id)
      IN  IF IsEmpty(old[f]) THEN out[f] = FreshOf(out.id)[f] ELSE out[f] = old[f]

\* C1 witness: a stored trust_level of "high" and a stored context survived an
\* import that set neither
C1_Witness ==
  /\ Merged
  /\ \E j \in InBoth :
       /\ OldOf(file.connections[j].id).trust_level = S("high")
       /\ FreshOf(file.connections[j].id).trust_level = None
       /\ file.connections[j].trust_level = S("high")
       /\ OldOf(file.connections[j].id).context = S(<<"c">>)
       /\ file.connections[j].context = S(<<"c">>)

\* C2: merge is additive: after an import, every identifier of the existing
\* snapshot is still in the output, also one that is not in the new batch.
C2_MergeIsAdditive ==
  Merged => IdsOf(existing.file.connections) \subseteq IdsOf(file.connections)

\* the identifier and the manual-enrichment fields of a stored connection
ManualView(c) ==
  [f \in {"id"} \cup {ManualFields[i] : i \in 1..Len(ManualFields)} |-> c[f]]

ManualViews(cs) == {ManualView(cs[i]) : i \in 1..Len(cs)}

\* the batch just exported is the batch whose export wrote the snapshot it was
\* merged into, and nobody edited that snapshot in between
Reimported ==
  /\ Merged
  /\ existing.origin.set
  /\ existing.origin.conns = conns

\* C3: importing the same batch again, against the snapshot the first import
\* produced, yields the same identifiers with the same manual-enrichment fields.
C3_MergeIdempotent ==
  Reimported =>
    /\ IdsOf(file.connections) = IdsOf(existing.file.connections)
    /\ ManualViews(file.connections) = ManualViews(existing.file.connections)

\* C3 witness: a batch was imported twice in a row into a snapshot that carries
\* enrichment
C3_Witness ==
  /\ Reimported
  /\ \E j \in 1..Len(file.connections) : file.connections[j].trust_level = S("high")

NonManualFields ==
  {"name", "company", "position", "message_count", "relationship_strength",
   "last_message"}

\* C4: for every identifier in both the existing snapshot and the batch, name,
\* company, position, message_count, relationship_strength and last_message of the
\* output are the freshly imported values, whatever the snapshot held.
C4_ImportedFieldsOverwritten ==
  Merged =>
    \A j \in InBoth : \A f \in NonManualFields :
      file.connections[j][f] = FreshOf(file.connections[j].id)[f]

\* C4 witness: the snapshot held a relationship_strength overridden to "close",
\* a company, a message_count and a last_message that the import replaced
C4_Witness ==
  /\ Merged
  /\ \E j \in InBoth :
       LET old == OldOf(file.connections[j].id)
           out == file.connections[j]
       IN  /\ old.relationship_strength = S("close")
           /\ out.relationship_strength = S("cold")
           /\ old.company = S(<<"Z">>) /\ out.company # old.company
           /\ old.message_count = I(99) /\ out.message_count = I(0)
           /\ old.last_message # None /\ out.last_message = None

\* relationship_strength as the thresholds assign it
StrengthMatchesCount(c) ==
  LET n == c.message_count.v
      s == c.relationship_strength
  IN  /\ (s = S("close")) <=> (n >= 10)
      /\ (s = S("warm")) <=> (3 <= n /\ n < 10)
      /\ (s = S("cold")) <=> (n < 3)

\* C5: for every connection an import produces, relationship_strength is close iff
\* message_count >= 10, warm iff 3 <= message_count < 10, and cold otherwise, also
\* with no messages at all.
C5_StrengthFromMessageCount ==
  /\ \A i \in 1..Len(conns) : StrengthMatchesCount(conns[i])
  /\ pc = "exported" =>
       \A j \in 1..Len(file.connections) : StrengthMatchesCount(file.connections[j])

\* C5 witness: an import wrote a connection with 10 messages as close next to one
\* with 3 messages as warm
C5_Witness ==
  /\ pc = "exported"
  /\ \E i, j \in 1..Len(file.connections) :
       /\ file.connections[i].message_count = I(10)
       /\ file.connections[i].relationship_strength = S("close")
       /\ file.connections[j].message_count = I(3)
       /\ file.connections[j].relationship_strength = S("warm")

Distinct(cs) == \A i, j \in 1..Len(cs) : i # j => cs[i].id # cs[j].id

\* C6: identifiers are unique within every snapshot an import produces: no two
\* connections of the parser or of the exported list share an id, whatever the rows.
C6_IdsUnique ==
  /\ Distinct(conns)
  /\ pc = "exported" => Distinct(file.connections)

\* C6 witness: two rows whose names normalise to one base identifier were exported
C6_Witness ==
  /\ pc = "exported"
  /\ Len(file.connections) >= 2
  /\ \E i, j \in 1..Len(conns) :
       /\ i # j
       /\ make_id(conns[i].first_name, conns[i].last_name)
            = make_id(conns[j].first_name, conns[j].last_name)

\* the rank of a strength in the output order
Rank(c) ==
  CASE c.relationship_strength = S("close") -> 0
    [] c.relationship_strength = S("warm") -> 1
    [] OTHER -> 2

\* C7: the exported list is sorted by strength (close, warm, cold) and, within one
\* strength, by name ascending: each adjacent pair is in order.
C7_OutputSorted ==
  pc = "exported" =>
    \A j \in 1..(Len(file.connections) - 1) :
      LET a == file.connections[j]
          b == file.connections[j + 1]
      IN  \/ Rank(a) < Rank(b)
          \/ Rank(a) = Rank(b) /\ ~StrLess(b.name, a.name)

\* C7 witness: the export put a connection parsed second before one parsed first,
\* by strength in one state and by name in another
C7_Witness ==
  /\ pc = "exported"
  /\ Len(conns) = 2
  /\ file.connections[1].id = conns[2].id
  /\ file.connections[1].relationship_strength = S("close")
  /\ file.connections[2].relationship_strength = S("warm")

(***************************************************************************)
(* network_intel.py                                                        *)
(***************************************************************************)

\* {}: a stats mapping that holds nothing
NoStats == <<>>

\* load_network: a missing network.yaml reads as no connections and no stats
load_network(f) ==
  IF f.exists
  THEN [connections |-> f.connections, stats |-> f.stats]
  ELSE [connections |-> <<>>, stats |-> NoStats]

NetworkInsight(type, priority, message, connections, action) ==
  [ type |-> type, priority |-> priority, message |-> message,
    connections |-> connections, action |-> action ]

\* a call that returned out
Returned(out) == [raised |-> FALSE, out |-> out]

\* a call that an exception ended
Raised == [raised |-> TRUE, out |-> <<>>]

\* the first n elements: s[:n]
Take(s, n) == SubSeq(s, 1, IF Len(s) < n THEN Len(s) ELSE n)

\* last_contact or last_message
last_touch(conn) == Or(Get(conn, "last_contact"), Get(conn, "last_message"))

\* strength in ("warm", "close") and last_touch and last_touch < cutoff
GoingStale(conn, cutoff) ==
  /\ GetOr(conn, "relationship_strength", S("cold")) \in {S("warm"), S("close")}
  /\ Truthy(last_touch(conn))
  /\ StrLess(last_touch(conn).v, cutoff)

\* the insight of one stale connection; of its message the name, the company and
\* the strength are kept
StaleInsight(conn) ==
  NetworkInsight("stale",
                 IF conn.relationship_strength = S("close") THEN "high" ELSE "medium",
                 [ name |-> conn.name, company |-> Get(conn, "company"),
                   strength |-> conn.relationship_strength ],
                 <<conn.id>>,
                 Get(conn, "notes"))

IsHigh(x) == x.priority = "high"

NotHigh(x) == x.priority # "high"

\* stale_relationships(network, threshold_days), with cutoff the day
\* threshold_days before now as "%Y-%m-%d": strptime raises ValueError on a last
\* touch that is not such a date; the sort puts the high insights first and
\* keeps the order otherwise
stale_relationships(network, cutoff) ==
  LET cs == network.connections
      Going(c) == GoingStale(c, cutoff)
      taken == SelectSeq(cs, Going)
      insights == [k \in 1..Len(taken) |-> StaleInsight(taken[k])]
  IN  IF \E k \in 1..Len(taken) : ~Strptime(last_touch(taken[k]).v, 3).ok
      THEN Raised
      ELSE Returned(SelectSeq(insights, IsHigh) \o SelectSeq(insights, NotHigh))

\* network_gaps' target_domains when none are given
DefaultTargetDomains ==
  << <<"d", "i", "s", "t", "r", "i", "b", "u", "t", "i", "o", "n">>,
     <<"s", "a", "l", "e", "s">>,
     <<"m", "a", "r", "k", "e", "t", "i", "n", "g">>,
     <<"f", "u", "n", "d", "r", "a", "i", "s", "i", "n", "g">>,
     <<"t", "e", "c", "h", "n", "i", "c", "a", "l">>,
     <<"p", "r", "o", "d", "u", "c", "t">>,
     <<"d", "e", "s", "i", "g", "n">>,
     <<"o", "p", "e", "r", "a", "t", "i", "o", "n", "s">> >>

\* "elif count < 3": below this count a domain is thinly covered
ThinCoverage == 3

\* conn.get("domains", [])
DomainsOf(conn) == GetOr(conn, "domains", L(<<>>))

\* "for domain in conn.get('domains', [])" raises TypeError on a null domains
NullDomains(cs) == \E i \in 1..Len(cs) : DomainsOf(cs[i]) = None

\* domain_counts.get(domain.lower(), 0): one for every tag, of any connection,
\* whose lower case is the domain's
DomainCount(cs, domain) ==
  SumOver(Len(cs),
          [i \in 1..Len(cs) |->
             Cardinality({k \in 1..Len(DomainsOf(cs[i]).v) :
                            Lower(DomainsOf(cs[i]).v[k]) = Lower(domain)})])

GapInsight(domain, count) ==
  NetworkInsight("gap", IF count = 0 THEN "high" ELSE "medium",
                 [domain |-> domain, count |-> count], <<>>, domain)

\* network_gaps(network, target_domains)
network_gaps(network, target_domains) ==
  LET cs == network.connections
      count == [j \in 1..Len(target_domains) |-> DomainCount(cs, target_domains[j])]
      Flagged(j) == count[j] = 0 \/ count[j] < ThinCoverage
      flagged == SelectSeq([j \in 1..Len(target_domains) |-> j], Flagged)
  IN  IF NullDomains(cs) THEN Raised
      ELSE Returned([k \in 1..Len(flagged) |->
                       GapInsight(target_domains[flagged[k]], count[flagged[k]])])

\* energizing_connections(network)
energizing_connections(network) ==
  LET cs == network.connections
      IsEnergizing(c) == Get(c, "energy") = S("energizing")
      IsDraining(c) == Get(c, "energy") = S("draining")
      energizing == SelectSeq(cs, IsEnergizing)
      draining == SelectSeq(cs, IsDraining)
  IN  Returned(
        (IF energizing # <<>>
         THEN << NetworkInsight("energizing", "medium", Len(energizing),
                                [k \in 1..Len(energizing) |-> energizing[k].id],
                                [k \in 1..Len(Take(energizing, 5)) |-> energizing[k].name]) >>
         ELSE <<>>)
        \o
        (IF draining # <<>>
         THEN << NetworkInsight("draining", "low", Len(draining),
                                [k \in 1..Len(draining) |-> draining[k].id],
                                None) >>
         ELSE <<>>))

(***************************************************************************)
(* pattern_detect.py and goal_alignment.py                                 *)
(***************************************************************************)

Pattern(type, description, evidence, suggestion) ==
  [ type |-> type, description |-> description, evidence |-> evidence,
    suggestion |-> suggestion ]

\* trust == "high" and not positives
UndocumentedTrust(conn) ==
  /\ Get(conn, "trust_level") = S("high")
  /\ ~Truthy(GetOr(conn, "positives", L(<<>>)))

\* connected_date before one_year_ago and no trust, positives or negatives
OldUnassessed(conn, one_year_ago) ==
  /\ Truthy(Get(conn, "connected_date"))
  /\ StrLess(Get(conn, "connected_date").v, one_year_ago)
  /\ ~Truthy(Get(conn, "trust_level"))
  /\ ~Truthy(GetOr(conn, "positives", L(<<>>)))
  /\ ~Truthy(GetOr(conn, "negatives", L(<<>>)))

\* domain_counts[domain]: the tags equal to domain, letter case and all
TagCount(cs, domain) ==
  SumOver(Len(cs), [i \in 1..Len(cs) |-> Occurrences(DomainsOf(cs[i]).v, domain)])

\* sum(domain_counts.values())
TagTotal(cs) == SumOver(Len(cs), [i \in 1..Len(cs) |-> Len(DomainsOf(cs[i]).v)])

\* mutant: a share of 40% is dominant already
DominantDomains_AtLeast(cs) ==
  {d \in UNION {TagsOf(DomainsOf(cs[i]).v) : i \in 1..Len(cs)} :
     10 * TagCount(cs, d) >= 4 * TagTotal(cs)}

\* the domains d with domain_counts[d] / total > 0.4
DominantDomains(cs) ==
  {d \in UNION {TagsOf(DomainsOf(cs[i]).v) : i \in 1..Len(cs)} :
     10 * TagCount(cs, d) > 4 * TagTotal(cs)}

\* blind_spot_detection(network), with one_year_ago the day 365 days before now
blind_spot_detection(network, one_year_ago) ==
  LET cs == network.connections
      Old(c) == OldUnassessed(c, one_year_ago)
      undocumented_trust == SelectSeq(cs, UndocumentedTrust)
      old_unassessed == SelectSeq(cs, Old)
      NamesOf(xs) == [k \in 1..Len(xs) |-> xs[k].name]
  IN  IF NullDomains(cs) THEN Raised
      ELSE Returned(
             (IF undocumented_trust # <<>>
              THEN << Pattern("undocumented_trust", Len(undocumented_trust),
                              NamesOf(Take(undocumented_trust, 5)), "why") >>
              ELSE <<>>)
             \o
             (IF old_unassessed # <<>>
              THEN << Pattern("old_unassessed", Len(old_unassessed),
                              NamesOf(Take(old_unassessed, 5)), "assess") >>
              ELSE <<>>)
             \o
             (IF DominantDomains(cs) # {}
              THEN << Pattern("potential_echo_chamber", 0, DominantDomains(cs),
                              "diverse") >>
              ELSE <<>>))

\* load_goals: a missing goals.yaml reads as {}
load_goals(f) ==
  IF f.exists
  THEN [ empty |-> FALSE, misalignments |-> f.misalignments,
         avoided_actions |-> f.avoided_actions ]
  ELSE [ empty |-> TRUE, misalignments |-> <<>>, avoided_actions |-> <<>> ]

AlignmentInsight(type, description, stated, actual) ==
  [type |-> type, description |-> description, stated |-> stated, actual |-> actual]

\* stated_vs_revealed(goals): one "misaligned" insight for every entry of
\* delta.misalignments, one "avoidance" insight for a non-empty
\* revealed.avoided_actions, and "no_data" for goals that hold nothing
stated_vs_revealed(g) ==
  LET misaligned ==
        [k \in 1..Len(g.misalignments) |->
           AlignmentInsight("misaligned", g.misalignments[k].gap,
                            g.misalignments[k].stated, g.misalignments[k].actual)]
      avoidance ==
        IF g.avoided_actions # <<>>
        THEN << AlignmentInsight("avoidance", <<>>, <<>>, Take(g.avoided_actions, 5)) >>
        ELSE <<>>
      insights == misaligned \o avoidance
  IN  IF insights = <<>> /\ g.empty
      THEN << AlignmentInsight("no_data", <<>>, <<>>, <<>>) >>
      ELSE insights

(***************************************************************************)
(* network_intel.py: network_summary                                       *)
(***************************************************************************)

\* stats.get("total"): set and not 0
HasTotal(stats) == "total" \in DOMAIN stats /\ stats.total # 0

\* the tags of the connections in the order a dict first meets them
RECURSIVE FirstSeen(_, _)
FirstSeen(tags, seen) ==
  IF tags = <<>> THEN seen
  ELSE IF \E k \in 1..Len(seen) : seen[k] = tags[1]
       THEN FirstSeen(Tail(tags), seen)
       ELSE FirstSeen(Tail(tags), Append(seen, tags[1]))

RECURSIVE AllTags(_)
AllTags(cs) ==
  IF cs = <<>> THEN <<>>
  ELSE AllTags(SubSeq(cs, 1, Len(cs) - 1)) \o DomainsOf(cs[Len(cs)]).v

\* sorted(items, key=count, reverse=True): stable, the greater count first
RECURSIVE SortByCount(_, _)
SortByCount(items, count) ==
  IF items = <<>> THEN <<>>
  ELSE LET top == CHOOSE k \in 1..Len(items) :
                    /\ \A j \in 1..Len(items) : count[items[j]] <= count[items[k]]
                    /\ \A j \in 1..(k - 1) : count[items[j]] < count[items[k]]
       IN  <<items[top]>>
           \o SortByCount(SubSeq(items, 1, top - 1) \o SubSeq(items, top + 1, Len(items)),
                          count)

\* the stats network_summary computes when the snapshot brings none
ComputedStats(cs) ==
  LET strengths == {S("close"), S("warm"), S("cold")}
                     \cup {GetOr(cs[i], "relationship_strength", S("cold")) : i \in 1..Len(cs)}
      tags == FirstSeen(AllTags(cs), <<>>)
  IN  [ total |-> Len(cs),
        by_relationship |->
          [s \in strengths |->
             Cardinality({i \in 1..Len(cs) :
                            GetOr(cs[i], "relationship_strength", S("cold")) = s})],
        by_domain |-> [k \in 1..Len(tags) |-> [tag |-> tags[k], n |-> TagCount(cs, tags[k])]] ]

\* the keys of a stored stats mapping read the way network_summary reads them
StoredStats(stats) ==
  [ total |-> stats.total,
    by_relationship |->
      [s \in {S("close"), S("warm"), S("cold")} |-> stats.by_relationship[s.v]],
    by_domain |->
      LET tags == CHOOSE q \in [1..Cardinality(DOMAIN stats.by_domain) -> DOMAIN stats.by_domain] :
                    \A t \in DOMAIN stats.by_domain : \E k \in DOMAIN q : q[k] = t
      IN  [k \in DOMAIN tags |-> [tag |-> tags[k], n |-> stats.by_domain[tags[k]]]] ]

\* trust_stats and energy_stats: the count of every value met, the documented
\* values included
ValueStats(cs, field, default, documented) ==
  [ v \in documented \cup {GetOr(cs[i], field, default) : i \in 1..Len(cs)} |->
      Cardinality({i \in 1..Len(cs) : GetOr(cs[i], field, default) = v}) ]

\* network_summary(network), at a time whose cutoff for staleness is cutoff
network_summary(network, cutoff) ==
  LET cs == network.connections
      stored == HasTotal(network.stats)
      stats == IF stored THEN StoredStats(network.stats) ELSE ComputedStats(cs)
      stale == stale_relationships(network, cutoff)
      gaps == network_gaps(network, DefaultTargetDomains)
      trust_stats == ValueStats(cs, "trust_level", S("unknown"),
                                {S("high"), S("medium"), S("low"), S("unknown")})
      energy_stats == ValueStats(cs, "energy", S("neutral"),
                                 {S("energizing"), S("neutral"), S("draining")})
      WithPositives(c) == Truthy(Get(c, "positives"))
      WithNegatives(c) == Truthy(Get(c, "negatives"))
      counts == [k \in 1..Len(stats.by_domain) |-> stats.by_domain[k].n]
      order == SortByCount([k \in 1..Len(counts) |-> k], counts)
  IN  IF (~stored /\ NullDomains(cs)) \/ stale.raised \/ gaps.raised
      THEN Raised
      ELSE Returned(
             [ total_connections |-> stats.total,
               close |-> stats.by_relationship[S("close")],
               warm |-> stats.by_relationship[S("warm")],
               cold |-> stats.by_relationship[S("cold")],
               top_domains |-> Take([k \in 1..Len(order) |-> stats.by_domain[order[k]]], 5),
               stale_count |-> Len(stale.out),
               stale_high_priority |-> SelectSeq(stale.out, IsHigh),
               gaps |-> SelectSeq(gaps.out, IsHigh),
               trust |-> trust_stats,
               energy |-> energy_stats,
               with_positives |-> Len(SelectSeq(cs, WithPositives)),
               with_negatives |-> Len(SelectSeq(cs, WithNegatives)),
               high_trust_count |-> trust_stats[S("high")],
               energizing_count |-> energy_stats[S("energizing")],
               draining_count |-> energy_stats[S("draining")] ])

(***************************************************************************)
(* run_all.py                                                              *)
(***************************************************************************)

\* "return actions[:10]"
ActionCap == 10

\* a.description[:50]
DescriptionCut == 50

Action(priority, action, ref, reason) ==
  [priority |-> priority, action |-> action, ref |-> ref, reason |-> reason]

IsMisaligned(a) == a.type = "misaligned"

\* "undocumented" in b.type or "echo" in b.type
UndocumentedOrEcho(b) == b.type \in {"undocumented_trust", "potential_echo_chamber"}

\* len(e.connections) > 3 of a "draining" insight
ManyDraining(e) == e.type = "draining" /\ Len(e.connections) > 3

\* the actions in the order generate_action_items appends them: the high ones
\* of stale[:3], the high ones of gaps[:2], the draining insight of more than 3
\* connections, the undocumented and echo ones of blind_spots[:2], and every
\* misalignment
CollectActions(stale, gaps, energy, blind_spots, alignment) ==
  LET s == SelectSeq(Take(stale, 3), IsHigh)
      g == SelectSeq(Take(gaps, 2), IsHigh)
      e == SelectSeq(energy, ManyDraining)
      b == SelectSeq(Take(blind_spots, 2), UndocumentedOrEcho)
      a == SelectSeq(alignment, IsMisaligned)
  IN  [k \in 1..Len(s) |->
         Action("high", "Reconnect with", s[k].connections[1], "stale")]
      \o [k \in 1..Len(g) |->
            Action("medium", "Build network in", g[k].message.domain, "gap")]
      \o [k \in 1..Len(e) |->
            Action("low", "Review draining relationships", <<>>, "draining")]
      \o [k \in 1..Len(b) |-> Action("medium", b[k].suggestion, <<>>, b[k].type)]
      \o [k \in 1..Len(a) |->
            Action("high", "Address goal misalignment",
                   Take(a[k].description, DescriptionCut), "misaligned")]

\* mutant: the misalignments rank before every other high action
priority_order_GoalsFirst(x) ==
  CASE x.priority = "high" /\ x.reason = "misaligned" -> 0
    [] x.priority = "high" -> 1
    [] x.priority = "medium" -> 2
    [] OTHER -> 3

\* priority_order.get(x["priority"], 3)
priority_order(x) ==
  CASE x.priority = "high" -> 0
    [] x.priority = "medium" -> 1
    [] x.priority = "low" -> 2
    [] OTHER -> 3

\* mutant: a sort that turns the actions of one priority around
SortByPriority_Unstable(actions) ==
  LET Rev(s) == [k \in 1..Len(s) |-> s[Len(s) + 1 - k]]
      Is0(x) == priority_order(x) = 0
      Is1(x) == priority_order(x) = 1
      Is2(x) == priority_order(x) = 2
      Is3(x) == priority_order(x) = 3
  IN  Rev(SelectSeq(actions, Is0)) \o Rev(SelectSeq(actions, Is1))
      \o Rev(SelectSeq(actions, Is2)) \o Rev(SelectSeq(actions, Is3))

\* actions.sort(key=...): stable, so each priority keeps the order of appending
SortByPriority(actions) ==
  LET Is0(x) == priority_order(x) = 0
      Is1(x) == priority_order(x) = 1
      Is2(x) == priority_order(x) = 2
      Is3(x) == priority_order(x) = 3
  IN  SelectSeq(actions, Is0) \o SelectSeq(actions, Is1)
      \o SelectSeq(actions, Is2) \o SelectSeq(actions, Is3)

\* mutant: the list is returned whole
TopActions_All(actions) == actions

\* actions[:10]
TopActions(actions) == Take(actions, ActionCap)

\* the list of generate_action_items as sorted, before "return actions[:10]",
\* for a populated network whose analyses all return
SortedActions(network_file, goals_file, now) ==
  LET network == load_network(network_file)
  IN  SortByPriority(
        CollectActions(stale_relationships(network, now.cutoff).out,
                       network_gaps(network, DefaultTargetDomains).out,
                       energizing_connections(network).out,
                       blind_spot_detection(network, now.one_year_ago).out,
                       stated_vs_revealed(load_goals(goals_file))))

\* mutant: the check for an empty network never succeeds
Unpopulated_Never(connections) == FALSE

\* "if not connections"
Unpopulated(connections) == connections = <<>>

\* generate_action_items(), reading network.yaml and goals.yaml at the time now:
\* an empty network gives the one action to import; an analysis that raises
\* ends the call
generate_action_items(network_file, goals_file, now) ==
  LET network == load_network(network_file)
  IN  IF Unpopulated(network.connections)
      THEN Returned(<< Action("high", "Import LinkedIn data to populate network",
                              <<>>, "unpopulated") >>)
      ELSE LET stale == stale_relationships(network, now.cutoff)
               gaps == network_gaps(network, DefaultTargetDomains)
               blind_spots == blind_spot_detection(network, now.one_year_ago)
           IN  IF stale.raised \/ gaps.raised \/ blind_spots.raised
               THEN Raised
               ELSE Returned(TopActions(SortByPriority(
                      CollectActions(stale.out, gaps.out,
                                     energizing_connections(network).out,
                                     blind_spots.out,
                                     stated_vs_revealed(load_goals(goals_file))))))

\* mutant: "and" in place of "or" in needs_attention
NeedsAttention_Both(stale, draining) == stale > 0 /\ draining > 3

\* "stale > 0 or draining > 3"
NeedsAttention(stale, draining) == stale > 0 \/ draining > 3

\* run_all.quick_summary(), at a time whose cutoff for staleness is cutoff
quick_summary(network_file, cutoff) ==
  LET network == load_network(network_file)
      summary == network_summary(network, cutoff)
  IN  IF Unpopulated(network.connections)
      THEN Returned([status |-> "unpopulated"])
      ELSE IF summary.raised THEN Raised
      ELSE Returned(
             [ status |-> "active",
               total_connections |-> summary.out.total_connections,
               close |-> summary.out.close,
               warm |-> summary.out.warm,
               cold |-> summary.out.cold,
               high_trust |-> summary.out.high_trust_count,
               energizing |-> summary.out.energizing_count,
               draining |-> summary.out.draining_count,
               stale_relationships |-> summary.out.stale_count,
               needs_attention |->
                 NeedsAttention(summary.out.stale_count, summary.out.draining_count) ])

(***************************************************************************)
(* The inputs of the analyses: network.yaml as imports and the user's      *)
(* edits leave it, goals.yaml, and the clock                               *)
(***************************************************************************)

\* the most connections a network.yaml of the analyses holds
MaxConns == 4

\* the most entries delta.misalignments of a goals.yaml holds
MaxMisalignments == 8

Iso20230101 == <<"2", "0", "2", "3", "-", "0", "1", "-", "0", "1">>

Iso20241201 == <<"2", "0", "2", "4", "-", "1", "2", "-", "0", "1">>

Iso20200101 == <<"2", "0", "2", "0", "-", "0", "1", "-", "0", "1">>

TagSales == <<"s", "a", "l", "e", "s">>

TagSalesCapital == <<"S", "a", "l", "e", "s">>

TagDesign == <<"d", "e", "s", "i", "g", "n">>

\* a close contact last met long ago, trusted without a documented reason
CloseStale ==
  [ relationship_strength |-> S("close"), message_count |-> I(10),
    last_contact |-> S(Iso20230101), domains |-> L(<<TagSales>>),
    trust_level |-> S("high"), energy |-> S("draining") ]

\* a warm contact never met, last written to long ago, tagged twice with one
\* domain in two letter cases
WarmStale ==
  [ relationship_strength |-> S("warm"), message_count |-> I(3),
    last_contact |-> S(<<>>), last_message |-> S(Iso20230101),
    connected_date |-> S(Iso20200101),
    domains |-> L(<<TagSalesCapital, TagSales>>), energy |-> S("draining") ]

\* a close contact met recently, last written to long ago
CloseFresh ==
  [ relationship_strength |-> S("close"), message_count |-> I(10),
    last_contact |-> S(Iso20241201), last_message |-> S(Iso20230101),
    domains |-> L(<<TagDesign>>), trust_level |-> S("high"),
    positives |-> L(<< <<"k", "i", "n", "d">> >>), energy |-> S("energizing") ]

\* a cold contact last met long ago, its domains key left empty in the YAML
ColdNull ==
  [ relationship_strength |-> S("cold"), last_contact |-> S(Iso20230101),
    domains |-> None ]

\* a close contact as an import writes it: last_message is the Messages.csv
\* date that _parse_date passed through
AsImported ==
  [ relationship_strength |-> S("close"), message_count |-> I(10),
    last_message |-> parse_date(RawUtc) ]

Profiles == {CloseStale, WarmStale, CloseFresh, ColdNull, AsImported}

\* the connections of a network.yaml: the i-th is P i with the fields of ps[i]
Snapshot(ps) ==
  [ i \in 1..Len(ps) |->
      Edited(to_dict(Connection(make_id(<<"P">>, IntToStr(i)), <<"P">>, IntToStr(i),
                                None, None, None, None)),
             ps[i]) ]

\* the fields of a profile that an import sets
ImportedPart(profile) ==
  [f \in {g \in DOMAIN profile : ~IsManual(g)} |-> profile[f]]

\* the stats the import wrote next to the connections, before the user
\* enriched them
StatsAsImported(ps) ==
  compute_stats(Snapshot([i \in 1..Len(ps) |-> ImportedPart(ps[i])]),
                CHOOSE d \in SixMonthsAgo : TRUE)

NetworkFiles ==
  {NoFile} \cup
  { [exists |-> TRUE, connections |-> Snapshot(ps), stats |-> StatsAsImported(ps)] :
      ps \in SeqsUpTo(Profiles, MaxConns) }

Misalignment(k) ==
  [gap |-> <<"g">> \o IntToStr(k), stated |-> <<"s">>, actual |-> <<"a">>]

\* goals.yaml: missing, with one misalignment and an avoided action, and with
\* as many misalignments as the model allows
GoalsFiles ==
  { NoGoals,
    [ exists |-> TRUE, misalignments |-> <<Misalignment(1)>>,
      avoided_actions |-> << <<"c", "a", "l", "l">> >> ],
    [ exists |-> TRUE,
      misalignments |-> [k \in 1..MaxMisalignments |-> Misalignment(k)],
      avoided_actions |-> <<>> ] }

\* datetime.now() as the two days the analyses derive from it: 180 days before
\* (the default threshold_days) and 365 days before; now is 2023-03-01 or
\* 2025-01-01
Clocks ==
  { [ cutoff |-> <<"2", "0", "2", "2", "-", "0", "9", "-", "0", "2">>,
      one_year_ago |-> <<"2", "0", "2", "2", "-", "0", "3", "-", "0", "1">> ],
    [ cutoff |-> <<"2", "0", "2", "4", "-", "0", "7", "-", "0", "5">>,
      one_year_ago |-> <<"2", "0", "2", "4", "-", "0", "1", "-", "0", "2">> ] }

\* the target_domains of a network_gaps call: the default, or the caller's
TargetLists == {DefaultTargetDomains, <<TagSalesCapital, TagDesign>>}

(***************************************************************************)
(* The analyses as calls, one at a time, on a network.yaml and a           *)
(* goals.yaml                                                              *)
(***************************************************************************)

AnalysisInit ==
  /\ file \in NetworkFiles
  /\ goals \in GoalsFiles
  /\ result = NoResult
  /\ conns = <<>>
  /\ messages = NoMessages
  /\ pc = "new"
  /\ origin = NoOrigin
  /\ existing = NoExisting
  /\ preserve = TRUE

\* network_intel.stale_relationships()
StaleRelationships ==
  /\ result = NoResult
  /\ \E now \in Clocks :
       LET r == stale_relationships(load_network(file), now.cutoff)
       IN  result' = [ op |-> "stale_relationships", cutoff |-> now.cutoff,
                       raised |-> r.raised, out |-> r.out ]
  /\ UNCHANGED <<file, goals, parser>>

\* network_intel.network_gaps(target_domains=...)
NetworkGaps ==
  /\ result = NoResult
  /\ \E target_domains \in TargetLists :
       LET r == network_gaps(load_network(file), target_domains)
       IN  result' = [ op |-> "network_gaps", target_domains |-> target_domains,
                       raised |-> r.raised, out |-> r.out ]
  /\ UNCHANGED <<file, goals, parser>>

\* run_all.generate_action_items()
GenerateActionItems ==
  /\ result = NoResult
  /\ \E now \in Clocks :
       LET r == generate_action_items(file, goals, now)
       IN  result' = [ op |-> "generate_action_items", now |-> now,
                       raised |-> r.raised, out |-> r.out ]
  /\ UNCHANGED <<file, goals, parser>>

\* run_all.quick_summary()
QuickSummary ==
  /\ result = NoResult
  /\ \E now \in Clocks :
       LET r == quick_summary(file, now.cutoff)
       IN  result' = [ op |-> "quick_summary", cutoff |-> now.cutoff,
                       raised |-> r.raised, out |-> r.out ]
  /\ UNCHANGED <<file, goals, parser>>

\* the caller is done with what the call gave
Done ==
  /\ result # NoResult
  /\ result' = NoResult
  /\ UNCHANGED <<file, goals, parser>>

AnalysisNext ==
  \/ StaleRelationships
  \/ NetworkGaps
  \/ GenerateActionItems
  \/ QuickSummary
  \/ Done

AnalysisSpec == AnalysisInit /\ [][AnalysisNext]_vars

(***************************************************************************)
(* The analyses: properties                                                *)
(***************************************************************************)

\* the connections the call read
Loaded == load_network(file).connections

\* a is a day before b: by the calendar where both are "%Y-%m-%d" dates, as
\* strings otherwise
Earlier(a, b) ==
  LET da == Strptime(a, 3)
      db == Strptime(b, 3)
  IN  IF da.ok /\ db.ok
      THEN \/ da.y < db.y
           \/ da.y = db.y /\ da.m < db.m
           \/ da.y = db.y /\ da.m = db.m /\ da.d < db.d
      ELSE StrLess(a, b)

\* warm or close, with a last touch (last_contact when set, else last_message)
\* before the cutoff
WarmOrCloseAndOld(c, cutoff) ==
  LET touch == IF Truthy(c.last_contact) THEN c.last_contact ELSE c.last_message
  IN  /\ c.relationship_strength \in {S("warm"), S("close")}
      /\ Truthy(touch)
      /\ Earlier(touch.v, cutoff)

\* C8: a stale_relationships call returns an insight for a connection if and
\* only if the connection is warm or close and its last touch is before now
\* minus threshold_days, with priority high for close and medium for warm; cold
\* connections and connections without a last touch never appear.
C8_StaleIffWarmOrCloseAndOld ==
  result.op = "stale_relationships" =>
    /\ ~result.raised
    /\ \A i \in 1..Len(Loaded) :
         LET c == Loaded[i]
             mine == {k \in 1..Len(result.out) : result.out[k].connections = <<c.id>>}
         IN  /\ (mine # {}) <=> WarmOrCloseAndOld(c, result.cutoff)
             /\ \A k \in mine :
                  result.out[k].priority =
                    IF c.relationship_strength = S("close") THEN "high" ELSE "medium"

\* the connections that carry a tag equal to the domain but for letter case
Carrying(cs, domain) ==
  {i \in 1..Len(cs) :
     /\ cs[i].domains.t = "list"
     /\ \E k \in 1..Len(cs[i].domains.v) : Lower(cs[i].domains.v[k]) = Lower(domain)}

\* domain and priority of what C9 has network_gaps emit: in target order, high
\* for no connection, medium for one or two, nothing for three or more
GapsByConnections(cs, target_domains) ==
  LET Few(d) == Cardinality(Carrying(cs, d)) < 3
      few == SelectSeq(target_domains, Few)
  IN  [k \in 1..Len(few) |->
         [ domain |-> few[k],
           priority |-> IF Carrying(cs, few[k]) = {} THEN "high" ELSE "medium" ]]

\* C9: a network_gaps call that returns emits, for each target domain in target
\* order, by the number of connections carrying the domain's tag in any letter
\* case: a high gap for 0, a medium thin coverage for 1 or 2, nothing for 3 or more.
C9_GapsCountConnections ==
  (result.op = "network_gaps" /\ ~result.raised) =>
    [k \in 1..Len(result.out) |->
       [domain |-> result.out[k].message.domain, priority |-> result.out[k].priority]]
      = GapsByConnections(Loaded, result.target_domains)

\* C10: generate_action_items never returns more than 10 actions, whatever the
\* snapshot and the goals hold.
C10_AtMostTenActions ==
  result.op = "generate_action_items" => Len(result.out) <= 10

\* C10 witness: a call returned 10 actions of more than 10 that the stale
\* connections, the gaps, the blind spots and the misalignments gave
C10_Witness ==
  /\ result.op = "generate_action_items"
  /\ ~result.raised
  /\ Len(result.out) = 10
  /\ Len(SortedActions(file, goals, result.now)) > 10
  /\ \E k \in 1..10 : result.out[k].reason = "stale"
  /\ \E k \in 1..10 : result.out[k].reason = "misaligned"

\* C11: with zero connections in the snapshot, generate_action_items returns
\* exactly one action, of priority high, telling to import data, and nothing of
\* the other analyses, whatever misalignments the goals hold.
C11_EmptyNetworkOneImportAction ==
  (result.op = "generate_action_items" /\ Loaded = <<>>) =>
    /\ ~result.raised
    /\ Len(result.out) = 1
    /\ result.out[1].priority = "high"
    /\ result.out[1].action = "Import LinkedIn data to populate network"

\* C11 witness: the call ran on an empty connection list while goals.yaml held
\* misalignments, once with network.yaml missing and once with it there
C11_Witness ==
  /\ result.op = "generate_action_items"
  /\ Loaded = <<>>
  /\ Len(goals.misalignments) > 1
  /\ Len(result.out) = 1

\* the connections whose energy is draining
DrainingCount(cs) == Cardinality({i \in 1..Len(cs) : cs[i].energy = S("draining")})

\* what C12 has quick_summary give for a populated snapshot: the counts, with
\* needs_attention as the stale insights and the draining connections decide
SummaryAsClaimed(out, cs, cutoff) ==
  LET stale == stale_relationships([connections |-> cs], cutoff)
  IN  /\ out.status # "unpopulated"
      /\ out.stale_relationships = Len(stale.out)
      /\ out.draining = DrainingCount(cs)
      /\ out.needs_attention <=> (Len(stale.out) > 0 \/ DrainingCount(cs) > 3)

\* C12: quick_summary returns status unpopulated iff the snapshot has zero
\* connections; otherwise it returns a record of counts whose needs_attention is
\* true exactly when stale_relationships > 0 or draining > 3, stale_relationships
\* being the number of insights of stale_relationships() and draining the number
\* of connections with energy draining.
C12_QuickSummary ==
  result.op = "quick_summary" =>
    /\ ~result.raised
    /\ IF Loaded = <<>>
       THEN result.out.status = "unpopulated"
       ELSE SummaryAsClaimed(result.out, Loaded, result.cutoff)

\* quick_summary on the calls that return: as C12 has it
QuickSummaryWhenReturned ==
  (result.op = "quick_summary" /\ ~result.raised) =>
    IF Loaded = <<>>
    THEN result.out.status = "unpopulated"
    ELSE SummaryAsClaimed(result.out, Loaded, result.cutoff)

\* a returning call found 4 draining connections and no stale one
QuickSummaryDrainingOnly ==
  /\ result.op = "quick_summary"
  /\ ~result.raised
  /\ Loaded # <<>>
  /\ result.out.stale_relationships = 0
  /\ result.out.draining = 4
  /\ result.out.needs_attention

(***************************************************************************)
(* Point lookups: brain.py NetworkAccessor.get, network_intel.py           *)
(* connection_assessment, run_all.py before_meeting                        *)
(***************************************************************************)

\* the first position of connections whose id is connection_id, 0 for none
FirstWithId(connections, connection_id) ==
  IF \E i \in 1..Len(connections) : connections[i].id = connection_id
  THEN CHOOSE i \in 1..Len(connections) :
         /\ connections[i].id = connection_id
         /\ \A j \in 1..(i - 1) : connections[j].id # connection_id
  ELSE 0

\* mutant: a lookup that finds nothing gives the last connection
NetworkAccessor_get_Last(connections, connection_id) ==
  IF connections = <<>> THEN None
  ELSE IF FirstWithId(connections, connection_id) = 0
       THEN [t |-> "dict", v |-> connections[Len(connections)]]
       ELSE [t |-> "dict", v |-> connections[FirstWithId(connections, connection_id)]]

\* NetworkAccessor.get(connection_id): the connection, or None
NetworkAccessor_get(connections, connection_id) ==
  IF FirstWithId(connections, connection_id) = 0
  THEN None
  ELSE [t |-> "dict", v |-> connections[FirstWithId(connections, connection_id)]]

\* connection_assessment(connection_id, network)
connection_assessment(connection_id, network) ==
  LET k == FirstWithId(network.connections, connection_id)
      conn == network.connections[k]
  IN  IF k = 0
      THEN [error |-> connection_id]
      ELSE [ name |-> conn.name,
             company |-> Get(conn, "company"),
             position |-> Get(conn, "position"),
             relationship_strength |-> Get(conn, "relationship_strength"),
             trust_level |-> GetOr(conn, "trust_level", S("unknown")),
             energy |-> GetOr(conn, "energy", S("neutral")),
             positives |-> GetOr(conn, "positives", L(<<>>)),
             negatives |-> GetOr(conn, "negatives", L(<<>>)),
             domains |-> GetOr(conn, "domains", L(<<>>)),
             can_ask_for |-> GetOr(conn, "can_ask_for", L(<<>>)),
             last_contact |-> Or(Get(conn, "last_contact"), Get(conn, "last_message")),
             notes |-> Get(conn, "notes") ]

\* a section of the brief: there when the value is truthy
Section(x) == IF Truthy(x) THEN x ELSE None

\* before_meeting(connection_id): the text, as the values it is made of
before_meeting(connection_id, network_file) ==
  LET assessment == connection_assessment(connection_id, load_network(network_file))
  IN  IF "error" \in DOMAIN assessment
      THEN [text |-> "Connection not found", connection_id |-> connection_id]
      ELSE [ text |-> "MEETING BRIEF",
             name |-> assessment.name,
             company |-> assessment.company,
             position |-> assessment.position,
             relationship |-> assessment.relationship_strength,
             trust |-> assessment.trust_level,
             energy |-> assessment.energy,
             positives |-> Section(assessment.positives),
             negatives |-> Section(assessment.negatives),
             can_ask_for |-> Section(assessment.can_ask_for),
             notes |-> Section(assessment.notes) ]

\* the identifiers looked up: one that snapshots of two or more connections
\* hold, and one that no snapshot holds
LookupIds ==
  { make_id(<<"P">>, <<"2">>), <<"c", "o", "n", "n", ".", "x", "-", "y">> }

LookupInit ==
  /\ file \in NetworkFiles
  /\ goals = NoGoals
  /\ result = NoResult
  /\ conns = <<>>
  /\ messages = NoMessages
  /\ pc = "new"
  /\ origin = NoOrigin
  /\ existing = NoExisting
  /\ preserve = TRUE

\* brain.network.get(connection_id), on the accessor Brain.load() gave for a
\* network.yaml that is there
AccessorGet ==
  /\ result = NoResult
  /\ file.exists
  /\ \E connection_id \in LookupIds :
       result' = [ op |-> "NetworkAccessor.get", connection_id |-> connection_id,
                   raised |-> FALSE,
                   out |-> NetworkAccessor_get(file.connections, connection_id) ]
  /\ UNCHANGED <<file, goals, parser>>

\* network_intel.connection_assessment(connection_id)
ConnectionAssessment ==
  /\ result = NoResult
  /\ \E connection_id \in LookupIds :
       result' = [ op |-> "connection_assessment", connection_id |-> connection_id,
                   raised |-> FALSE,
                   out |-> connection_assessment(connection_id, load_network(file)) ]
  /\ UNCHANGED <<file, goals, parser>>

\* run_all.before_meeting(connection_id)
BeforeMeeting ==
  /\ result = NoResult
  /\ \E connection_id \in LookupIds :
       result' = [ op |-> "before_meeting", connection_id |-> connection_id,
                   raised |-> FALSE,
                   out |-> before_meeting(connection_id, file) ]
  /\ UNCHANGED <<file, goals, parser>>

LookupNext ==
  \/ AccessorGet
  \/ ConnectionAssessment
  \/ BeforeMeeting
  \/ Done

LookupSpec == LookupInit /\ [][LookupNext]_vars


\* whether some connection of the loaded snapshot has the identifier looked up
Held(connection_id) ==
  \E i \in 1..Len(Loaded) : Loaded[i].id = connection_id

\* the connections of the loaded snapshot that have the identifier
Holders(connection_id) ==
  { Loaded[i] : i \in { j \in 1..Len(Loaded) : Loaded[j].id = connection_id } }

C13_FoundWitness ==
  /\ result.op = "NetworkAccessor.get"
  /\ Held(result.connection_id)
  /\ result.out # None

(***************************************************************************)
(* network_intel.py: domain_matches, intro_paths                           *)
(***************************************************************************)

\* sub in s, for Python str
Contains(s, sub) ==
  \E i \in 1..(Len(s) - Len(sub) + 1) : SubSeq(s, i, i + Len(sub) - 1) = sub

\* " ".join(items)
RECURSIVE Join(_)
Join(items) ==
  IF items = <<>> THEN <<>>
  ELSE IF Len(items) = 1 THEN items[1]
  ELSE items[1] \o <<" ">> \o Join(Tail(items))

\* domain_matches' strength_order.get(strength, 1)
match_order(strength) ==
  CASE strength = S("close") -> 3
    [] strength = S("warm") -> 2
    [] OTHER -> 1

\* conn.get(key, ""): the text of an optional field
TextOf(conn, key) == GetOr(conn, key, S(<<>>))

\* the fields domain_matches searches, in its order; a join of a null list
\* raises TypeError before any is searched
Searchable(conn) ==
  << S(Join(DomainsOf(conn).v)),
     TextOf(conn, "position"),
     TextOf(conn, "company"),
     TextOf(conn, "notes"),
     S(Join(GetOr(conn, "can_ask_for", L(<<>>)).v)) >>

\* any(topic_lower in field.lower() for field in searchable): "match",
\* "skip", or "raise" when the search reaches a null field before a match
\* (None has no lower())
SearchConn(conn, topic_lower) ==
  IF DomainsOf(conn) = None \/ GetOr(conn, "can_ask_for", L(<<>>)) = None
  THEN "raise"
  ELSE LET fields == Searchable(conn)
           Stops(k) == fields[k] = None \/ Contains(Lower(fields[k].v), topic_lower)
       IN  IF \A k \in 1..Len(fields) : ~Stops(k) THEN "skip"
           ELSE LET first == CHOOSE k \in 1..Len(fields) :
                               Stops(k) /\ \A j \in 1..(k - 1) : ~Stops(j)
                IN  IF fields[first] = None THEN "raise" ELSE "match"

\* domain_matches(topic, network, min_strength)
domain_matches(topic, network, min_strength) ==
  LET cs == network.connections
      topic_lower == Lower(topic)
      Strong(c) ==
        match_order(GetOr(c, "relationship_strength", S("cold"))) >= match_order(S(min_strength))
      searched == SelectSeq(cs, Strong)
      found == [k \in 1..Len(searched) |-> SearchConn(searched[k], topic_lower)]
      Matched(k) == found[k] = "match"
      hits == SelectSeq([k \in 1..Len(searched) |-> k], Matched)
      matches == [k \in 1..Len(hits) |-> searched[hits[k]]]
  IN  IF \E k \in 1..Len(searched) : found[k] = "raise" THEN Raised
      ELSE IF matches # <<>>
      THEN Returned(<< NetworkInsight("domain_match", "high",
                                      [count |-> Len(matches), topic |-> topic],
                                      [k \in 1..Len(matches) |-> matches[k].id],
                                      [k \in 1..Len(Take(matches, 5)) |-> matches[k].name]) >>)
      ELSE Returned(<<>>)

TermPartner == <<"p", "a", "r", "t", "n", "e", "r">>

TermPrincipal == <<"p", "r", "i", "n", "c", "i", "p", "a", "l">>

TermInvestor == <<"i", "n", "v", "e", "s", "t", "o", "r">>

TermFounder == <<"f", "o", "u", "n", "d", "e", "r">>

TermGrowth == <<"g", "r", "o", "w", "t", "h">>

TermMarketing == <<"m", "a", "r", "k", "e", "t", "i", "n", "g">>

TermBd == <<"b", "d">>

TermVc == <<"v", "c">>

TermFundraising == <<"f", "u", "n", "d", "r", "a", "i", "s", "i", "n", "g">>

TermInvestors == <<"i", "n", "v", "e", "s", "t", "o", "r", "s">>

TermDistribution == <<"d", "i", "s", "t", "r", "i", "b", "u", "t", "i", "o", "n">>

\* the roles that know people of target_lower
RoleTerms(target_lower) ==
  IF target_lower \in {TermVc, TermFundraising, TermInvestors}
  THEN {TermPartner, TermPrincipal, TermInvestor, TermFounder}
  ELSE IF target_lower \in {TagSales, TermDistribution}
  THEN {TagSales, TermGrowth, TermMarketing, TermBd}
  ELSE {}

\* one connection of intro_paths: "path", "skip", or "raise" on a null
\* introduces_to (not iterable) and, when no listed intro matches, on a null
\* position or company (None has no lower())
IntroConn(conn, target_lower) ==
  LET intros == GetOr(conn, "introduces_to", L(<<>>))
      position == TextOf(conn, "position")
      company == TextOf(conn, "company")
  IN  IF intros = None THEN "raise"
      ELSE IF \E k \in 1..Len(intros.v) : Contains(Lower(intros.v[k]), target_lower)
      THEN "path"
      ELSE IF position = None \/ company = None THEN "raise"
      ELSE IF \E term \in RoleTerms(target_lower) : Contains(Lower(position.v), term)
      THEN "path"
      ELSE "skip"

\* intro_paths(target_domain, network)
intro_paths(target_domain, network) ==
  LET cs == network.connections
      found == [k \in 1..Len(cs) |-> IntroConn(cs[k], Lower(target_domain))]
      IsPath(k) == found[k] = "path"
      hits == SelectSeq([k \in 1..Len(cs) |-> k], IsPath)
      paths == [k \in 1..Len(hits) |-> cs[hits[k]]]
  IN  IF \E k \in 1..Len(cs) : found[k] = "raise" THEN Raised
      ELSE IF paths # <<>>
      THEN Returned(<< NetworkInsight("intro_path", "medium",
                                      [count |-> Len(paths), target_domain |-> target_domain],
                                      [k \in 1..Len(paths) |-> paths[k].id],
                                      [k \in 1..Len(Take(paths, 3)) |-> paths[k].name]) >>)
      ELSE Returned(<<>>)


(***************************************************************************)
(* pattern_detect.py: domain_clusters, relationship_trajectory,            *)
(* trust_patterns, energy_patterns                                         *)
(***************************************************************************)

\* conn.get("relationship_strength", "cold")
StrengthOr(conn) == GetOr(conn, "relationship_strength", S("cold"))

\* the keys of domain_by_strength's default entry
KnownStrengths == {S("close"), S("warm"), S("cold")}

\* "domain_by_strength[domain][strength] += 1" raises KeyError for a tagged
\* connection whose strength is not a key of the default entry
UnkeyedStrength(cs) ==
  \E i \in 1..Len(cs) :
    /\ DomainsOf(cs[i]).v # <<>>
    /\ StrengthOr(cs[i]) \notin KnownStrengths

\* domain_by_strength[domain]["close"]
CloseCount(cs, domain) ==
  SumOver(Len(cs),
          [i \in 1..Len(cs) |->
             IF StrengthOr(cs[i]) = S("close")
             THEN Occurrences(DomainsOf(cs[i]).v, domain) ELSE 0])

\* domain_clusters(network)
domain_clusters(network) ==
  LET cs == network.connections
      domains == FirstSeen(AllTags(cs), <<>>)
      domain_counts == [d \in TagsOf(domains) |-> TagCount(cs, d)]
      close == [d \in TagsOf(domains) |-> CloseCount(cs, d)]
      HasClose(d) == close[d] > 0
      sorted_domains == SortByCount(domains, domain_counts)
      sorted_strong == SortByCount(SelectSeq(domains, HasClose), close)
      Evidence(ds, count) == [k \in 1..Len(ds) |-> [domain |-> ds[k], count |-> count[ds[k]]]]
  IN  IF NullDomains(cs) \/ UnkeyedStrength(cs) THEN Raised
      ELSE IF domains = <<>>
      THEN Returned(<< Pattern("no_domains", 0, <<>>, "add domains") >>)
      ELSE Returned(
             << Pattern("domain_concentration", 0,
                        Evidence(Take(sorted_domains, 5), domain_counts), "") >>
             \o
             (IF sorted_strong # <<>>
              THEN << Pattern("strong_domain_relationships", 0,
                              Evidence(Take(sorted_strong, 5), close), "") >>
              ELSE <<>>))

\* conn.get("message_count", 0)
MessageCountOf(conn) == GetOr(conn, "message_count", I(0))

\* warm or close, with a last message before the cutoff
Cooling(conn, cutoff) ==
  /\ StrengthOr(conn) \in {S("warm"), S("close")}
  /\ Truthy(Get(conn, "last_message"))
  /\ StrLess(Get(conn, "last_message").v, cutoff)

\* cold, with a last message at or after the cutoff: message_count is compared
RecentCold(conn, cutoff) ==
  /\ StrengthOr(conn) = S("cold")
  /\ Truthy(Get(conn, "last_message"))
  /\ ~StrLess(Get(conn, "last_message").v, cutoff)

\* relationship_trajectory(network, lookback_days), with cutoff the day
\* lookback_days before now: "message_count >= 2" raises TypeError on a null
\* message_count
relationship_trajectory(network, cutoff) ==
  LET cs == network.connections
      IsCooling(c) == Cooling(c, cutoff)
      IsWarming(c) == RecentCold(c, cutoff) /\ MessageCountOf(c).v >= 2
      cooling == SelectSeq(cs, IsCooling)
      warming == SelectSeq(cs, IsWarming)
  IN  IF \E i \in 1..Len(cs) : RecentCold(cs[i], cutoff) /\ MessageCountOf(cs[i]) = None
      THEN Raised
      ELSE Returned(
             (IF cooling # <<>>
              THEN << Pattern("cooling", Len(cooling),
                              [k \in 1..Len(Take(cooling, 5)) |->
                                 [ name |-> cooling[k].name,
                                   strength |-> StrengthOr(cooling[k]),
                                   last |-> cooling[k].last_message ]],
                              "re-engage") >>
              ELSE <<>>)
             \o
             (IF warming # <<>>
              THEN << Pattern("warming", Len(warming),
                              [k \in 1..Len(Take(warming, 5)) |->
                                 [ name |-> warming[k].name,
                                   messages |-> warming[k].message_count,
                                   last |-> warming[k].last_message ]],
                              "continue") >>
              ELSE <<>>))

\* the concatenation of the sequences of seqs
RECURSIVE Flatten(_)
Flatten(seqs) == IF seqs = <<>> THEN <<>> ELSE seqs[1] \o Flatten(Tail(seqs))

\* conn.get("company", "Unknown")
CompanyOr(conn) ==
  GetOr(conn, "company", S(<<"U", "n", "k", "n", "o", "w", "n">>))

IsHighTrust(conn) == Get(conn, "trust_level") = S("high")

IsLowTrust(conn) == Get(conn, "trust_level") = S("low")

\* trust_by_company[company]: how many connections of the company are trusted
\* highly, and how many there are
TrustByCompany(cs, company) ==
  [ high |-> Cardinality({i \in 1..Len(cs) : CompanyOr(cs[i]) = company /\ IsHighTrust(cs[i])}),
    total |-> Cardinality({i \in 1..Len(cs) : CompanyOr(cs[i]) = company}) ]

\* trust_by_strength[strength]
TrustByStrength(cs, strength) ==
  [ high |-> Cardinality({i \in 1..Len(cs) : StrengthOr(cs[i]) = strength /\ IsHighTrust(cs[i])}),
    total |-> Cardinality({i \in 1..Len(cs) : StrengthOr(cs[i]) = strength}) ]

\* the words worth reporting: seen twice or more, longer than three letters
CommonWord(w, c) == c >= 2 /\ Len(w) > 3

\* trust_patterns(network)
trust_patterns(network) ==
  LET cs == network.connections
      companies == FirstSeen([i \in 1..Len(cs) |-> CompanyOr(cs[i])], <<>>)
      by_company == [c \in TagsOf(companies) |-> TrustByCompany(cs, c)]
      high == [c \in TagsOf(companies) |-> by_company[c].high]
      Concentrated(c) ==
        /\ by_company[c].high >= 2
        /\ by_company[c].total >= 3
        /\ 2 * by_company[c].high >= by_company[c].total
      high_trust_companies == SelectSeq(companies, Concentrated)
      close == TrustByStrength(cs, S("close"))
      cold == TrustByStrength(cs, S("cold"))
      Reasoned(c) == IsLowTrust(c) /\ Truthy(GetOr(c, "negatives", L(<<>>)))
      low_trust == SelectSeq(cs, Reasoned)
      low_trust_reasons == Flatten([k \in 1..Len(low_trust) |-> low_trust[k].negatives.v])
      words == Flatten([k \in 1..Len(low_trust_reasons) |-> Words(Lower(low_trust_reasons[k]))])
      distinct == FirstSeen(words, <<>>)
      word_counts == [w \in TagsOf(distinct) |-> Occurrences(words, w)]
      Common(w) == CommonWord(w, word_counts[w])
      common_words == SelectSeq(Take(SortByCount(distinct, word_counts), 10), Common)
  IN  Returned(
        (IF high_trust_companies # <<>>
         THEN << Pattern("trust_by_company", 0,
                         Take(SortByCount(high_trust_companies, high), 5), "culture") >>
         ELSE <<>>)
        \o
        (IF /\ close.total > 0
            /\ cold.total > 0
            /\ close.high * cold.total > 2 * cold.high * close.total
         THEN << Pattern("trust_strength_correlation", 0, <<close, cold>>, "expected") >>
         ELSE <<>>)
        \o
        (IF common_words # <<>>
         THEN << Pattern("low_trust_patterns", 0, Take(common_words, 5), "dealbreakers") >>
         ELSE <<>>))

\* energy_by_domain[domain][energy]: one for every tag equal to domain of a
\* connection of that energy
EnergyByDomain(cs, domain, energy) ==
  SumOver(Len(cs),
          [i \in 1..Len(cs) |->
             IF Get(cs[i], "energy") = S(energy)
             THEN Occurrences(DomainsOf(cs[i]).v, domain) ELSE 0])

\* energy_by_trust[trust][energy]
EnergyByTrust(cs, trust, energy) ==
  Cardinality({i \in 1..Len(cs) :
                 /\ GetOr(cs[i], "trust_level", S("unknown")) = S(trust)
                 /\ Get(cs[i], "energy") = S(energy)})

\* energy_patterns(network)
energy_patterns(network) ==
  LET cs == network.connections
      domains == FirstSeen(AllTags(cs), <<>>)
      energizing == [d \in TagsOf(domains) |-> EnergyByDomain(cs, d, "energizing")]
      draining == [d \in TagsOf(domains) |-> EnergyByDomain(cs, d, "draining")]
      Energizes(d) == energizing[d] >= 2
      Drains(d) == draining[d] >= 2
      energizing_domains == SortByCount(SelectSeq(domains, Energizes), energizing)
      draining_domains == SortByCount(SelectSeq(domains, Drains), draining)
      high_trust_draining == EnergyByTrust(cs, "high", "draining")
      low_trust_draining == EnergyByTrust(cs, "low", "draining")
  IN  IF NullDomains(cs) THEN Raised
      ELSE Returned(
             (IF energizing_domains # <<>>
              THEN << Pattern("energizing_domains", 0, Take(energizing_domains, 5), "seek") >>
              ELSE <<>>)
             \o
             (IF draining_domains # <<>>
              THEN << Pattern("draining_domains", 0, Take(draining_domains, 5), "mindful") >>
              ELSE <<>>)
             \o
             (IF high_trust_draining > 0
              THEN << Pattern("trust_energy_mismatch", high_trust_draining, <<>>, "obligation") >>
              ELSE <<>>)
             \o
             (IF low_trust_draining > 2
              THEN << Pattern("low_trust_draining", low_trust_draining, <<>>, "reduce") >>
              ELSE <<>>))


(***************************************************************************)
(* brain.py: the NetworkAccessor's filters                                 *)
(***************************************************************************)

\* NetworkAccessor.domain_matches(domain): the loop over a null domains raises
\* TypeError
NetworkAccessor_domain_matches(connections, domain) ==
  LET InDomain(c) ==
        \E k \in 1..Len(DomainsOf(c).v) : Contains(Lower(DomainsOf(c).v[k]), Lower(domain))
  IN  IF NullDomains(connections) THEN Raised
      ELSE Returned(SelectSeq(connections, InDomain))

\* NetworkAccessor.by_strength(strength)
NetworkAccessor_by_strength(connections, strength) ==
  LET Is(c) == Get(c, "relationship_strength") = S(strength)
  IN  SelectSeq(connections, Is)

\* NetworkAccessor.high_trust()
NetworkAccessor_high_trust(connections) == SelectSeq(connections, IsHighTrust)

\* NetworkAccessor.energizing(), NetworkAccessor.draining()
NetworkAccessor_by_energy(connections, energy) ==
  LET Is(c) == Get(c, "energy") = S(energy)
  IN  SelectSeq(connections, Is)

\* NetworkAccessor.search(query)
NetworkAccessor_search(connections, query) ==
  LET Hit(c) ==
        \/ Contains(Lower(c.name), Lower(query))
        \/ Contains(Lower(Or(Get(c, "company"), S(<<>>)).v), Lower(query))
  IN  SelectSeq(connections, Hit)

\* mutant: the counts go into the snapshot's own stats
StatsAfterSummary_InPlace(network) ==
  IF HasTotal(network.stats) \/ NullDomains(network.connections)
  THEN network.stats
  ELSE ComputedStats(network.connections)

\* the stats mapping of the snapshot after network_summary: "stats = {...}"
\* binds a new dict to the local name, and the counts go into that one
StatsAfterSummary(network) == network.stats

(***************************************************************************)
(* pattern_detect.py: communication_patterns, positive_negative_insights;  *)
(* goal_alignment.py: network_goal_fit                                     *)
(***************************************************************************)

\* pattern_detect.load_interactions, goal_alignment.load_interactions
load_interactions(f) ==
  IF f.exists THEN [interactions |-> f.interactions] ELSE [interactions |-> <<>>]

\* the keys of a counting dict in the order they were first counted, each with
\* its count
Counted(keys) ==
  LET distinct == FirstSeen(keys, <<>>)
  IN  [ keys |-> distinct,
        count |-> [k \in TagsOf(distinct) |-> Occurrences(keys, k)] ]

\* sorted(counts.items(), key=count, reverse=True) as (key, count) pairs
MostCommon(keys) ==
  LET c == Counted(keys)
      sorted == SortByCount(c.keys, c.count)
  IN  [k \in 1..Len(sorted) |-> [key |-> sorted[k], count |-> c.count[sorted[k]]]]

\* communication_patterns(network, interactions): "msg_count > 0" raises
\* TypeError on a null message_count
communication_patterns(network, interactions) ==
  LET cs == network.connections
      xs == interactions.interactions
      Named(x) == x.with # <<>>
      withs == SelectSeq(xs, Named)
      Talked(c) == MessageCountOf(c).v > 0
      Silent(c) == MessageCountOf(c).v = 0
      talked == SelectSeq(cs, Talked)
      contacts ==
        [k \in 1..Len(withs) |-> withs[k].with]
        \o Flatten([k \in 1..Len(talked) |-> Rep(talked[k].message_count.v, talked[k].name)])
      mediums == [k \in 1..Len(xs) |-> xs[k].medium]
      silent_connections == SelectSeq(cs, Silent)
  IN  IF \E i \in 1..Len(cs) : MessageCountOf(cs[i]) = None THEN Raised
      ELSE Returned(
             (IF contacts # <<>>
              THEN << Pattern("high_frequency", 0, Take(MostCommon(contacts), 5), "") >>
              ELSE <<>>)
             \o
             (IF mediums # <<>>
              THEN << Pattern("medium_preference", 0, MostCommon(mediums), "") >>
              ELSE <<>>)
             \o
             (IF silent_connections # <<>>
              THEN << Pattern("silent_connections", Len(silent_connections),
                              [k \in 1..Len(Take(silent_connections, 10)) |->
                                 silent_connections[k].name],
                              "reach out") >>
              ELSE <<>>))

LongWord(w) == Len(w) > 3

\* [w.lower() for w in entry.split() if len(w) > 3], over all entries
TraitWords(entries) ==
  LET Kept(entry) == SelectSeq(Words(entry), LongWord)
  IN  Flatten([k \in 1..Len(entries) |->
                 [j \in 1..Len(Kept(entries[k])) |-> Lower(Kept(entries[k])[j])]])

SeenTwice(pair) == pair.count >= 2

\* the evidence of valued_traits and watched_traits: of the ten most common
\* words the first five, those of them seen twice or more
TraitEvidence(entries) ==
  SelectSeq(Take(Take(MostCommon(TraitWords(entries)), 10), 5), SeenTwice)

\* positive_negative_insights(network): list.extend raises TypeError on a null
\* positives or negatives
positive_negative_insights(network) ==
  LET cs == network.connections
      PositivesOf(c) == GetOr(c, "positives", L(<<>>))
      NegativesOf(c) == GetOr(c, "negatives", L(<<>>))
      all_positives == Flatten([i \in 1..Len(cs) |-> PositivesOf(cs[i]).v])
      all_negatives == Flatten([i \in 1..Len(cs) |-> NegativesOf(cs[i]).v])
      only_positive ==
        Cardinality({i \in 1..Len(cs) : Truthy(PositivesOf(cs[i])) /\ ~Truthy(NegativesOf(cs[i]))})
      only_negative ==
        Cardinality({i \in 1..Len(cs) : Truthy(NegativesOf(cs[i])) /\ ~Truthy(PositivesOf(cs[i]))})
      balanced ==
        Cardinality({i \in 1..Len(cs) : Truthy(PositivesOf(cs[i])) /\ Truthy(NegativesOf(cs[i]))})
      total_assessed == only_positive + only_negative + balanced
      tally == [ only_positive |-> only_positive, only_negative |-> only_negative,
                 balanced |-> balanced ]
  IN  IF \E i \in 1..Len(cs) : PositivesOf(cs[i]) = None \/ NegativesOf(cs[i]) = None
      THEN Raised
      ELSE Returned(
             (IF total_assessed > 0 /\ only_positive > balanced * 2
              THEN << Pattern("overly_positive", 0, tally, "not seeing") >>
              ELSE IF total_assessed > 0 /\ only_negative > balanced * 2
              THEN << Pattern("overly_negative", 0, tally, "overlooking") >>
              ELSE <<>>)
             \o
             (IF all_positives # <<>> /\ TraitWords(all_positives) # <<>>
              THEN << Pattern("valued_traits", 0, TraitEvidence(all_positives), "prioritize") >>
              ELSE <<>>)
             \o
             (IF all_negatives # <<>> /\ TraitWords(all_negatives) # <<>>
              THEN << Pattern("watched_traits", 0, TraitEvidence(all_negatives), "dealbreakers") >>
              ELSE <<>>))

\* goal[:50]
GoalCut == 50

\* the stated goals that are not empty: the primary one, then the secondary
AllGoals(stated) ==
  SelectSeq((IF stated.primary # <<>> THEN <<stated.primary>> ELSE <<>>) \o stated.secondary,
            NonEmptyStr)

\* conn.get("can_ask_for", [])
SkillsOf(conn) == GetOr(conn, "can_ask_for", L(<<>>))

\* network_domains: the lower-cased domain tags and skills of the network
NetworkDomains(cs) ==
  UNION { {Lower(DomainsOf(cs[i]).v[k]) : k \in 1..Len(DomainsOf(cs[i]).v)}
          \cup {Lower(SkillsOf(cs[i]).v[k]) : k \in 1..Len(SkillsOf(cs[i]).v)} :
          i \in 1..Len(cs) }

\* mutant: a network domain matches when it is a word of the goal
MatchingDomains_Equal(cs, goal) ==
  {d \in NetworkDomains(cs) : \E w \in TagsOf(Words(Lower(goal))) : d = w}

\* matching_domains: the network domains that hold a word of the goal
MatchingDomains(cs, goal) ==
  {d \in NetworkDomains(cs) : \E w \in TagsOf(Words(Lower(goal))) : Contains(d, w)}

\* network_goal_fit(goals, network): the loops over a null domains or
\* can_ask_for raise TypeError, once there is a stated goal
network_goal_fit(stated, network) ==
  LET cs == network.connections
      all_goals == AllGoals(stated)
      Relevant(c, goal) ==
        \E k \in 1..Len(DomainsOf(c).v) : Lower(DomainsOf(c).v[k]) \in MatchingDomains(cs, goal)
      Fit(goal) ==
        IF MatchingDomains(cs, goal) # {}
        THEN AlignmentInsight("aligned", Take(goal, GoalCut), goal,
                              Cardinality({i \in 1..Len(cs) : Relevant(cs[i], goal)}))
        ELSE AlignmentInsight("gap", Take(goal, GoalCut), goal, 0)
  IN  IF all_goals = <<>>
      THEN Returned(<< AlignmentInsight("no_goals", 0, <<>>, 0) >>)
      ELSE IF \E i \in 1..Len(cs) : DomainsOf(cs[i]) = None \/ SkillsOf(cs[i]) = None
      THEN Raised
      ELSE Returned([k \in 1..Len(all_goals) |-> Fit(all_goals[k])])


(***************************************************************************)
(* The derivations as calls on hand-enriched snapshots                     *)
(***************************************************************************)

MaxDerived == 3

TextAcme == <<"A", "c", "m", "e">>

TextZed == <<"Z", "e", "d">>

TextSalesLead == <<"S", "a", "l", "e", "s", " ", "l", "e", "a", "d">>

TextKind == <<"k", "i", "n", "d">>

TextAlwaysLate == <<"A", "l", "w", "a", "y", "s", " ", "l", "a", "t", "e">>

TextLateAgain == <<"l", "a", "t", "e", " ", "a", "g", "a", "i", "n">>

\* a date written the American way round
Slash20230115 == <<"2", "0", "2", "3", "/", "0", "1", "/", "1", "5">>

\* every optional field filled in as documented
Documented ==
  [ relationship_strength |-> S("close"), message_count |-> I(10),
    last_contact |-> S(Iso20241201), last_message |-> S(Iso20230101),
    connected_date |-> S(Iso20200101), email |-> S(<<"a">>),
    company |-> S(TextAcme), position |-> S(TermPartner), notes |-> S(<<"m", "e", "t">>),
    domains |-> L(<<TagSales>>), can_ask_for |-> L(<< <<"i", "n", "t", "r", "o", "s">> >>),
    introduces_to |-> L(<<TermVc>>), trust_level |-> S("high"),
    energy |-> S("energizing"), positives |-> L(<<TextKind>>), negatives |-> L(<<>>) ]

\* trusted without a documented reason, tagged twice with one domain
Undocumented ==
  [ relationship_strength |-> S("warm"), message_count |-> I(3),
    last_contact |-> S(Iso20230101), last_message |-> S(Iso20230101),
    connected_date |-> S(Iso20200101), email |-> S(<<"b">>),
    company |-> S(TextAcme), position |-> S(TextSalesLead), notes |-> S(<<>>),
    domains |-> L(<<TagSalesCapital, TagSales>>), can_ask_for |-> L(<<>>),
    introduces_to |-> L(<<>>), trust_level |-> S("high"),
    energy |-> S("draining"), positives |-> L(<<>>), negatives |-> L(<<>>) ]

\* a recent cold contact, distrusted for reasons
LowTrust ==
  [ relationship_strength |-> S("cold"), message_count |-> I(2),
    last_contact |-> None, last_message |-> S(Iso20241201),
    connected_date |-> S(Iso20241201), email |-> S(<<"c">>),
    company |-> S(TextZed), position |-> S(TermFounder), notes |-> S(<<"n">>),
    domains |-> L(<<TagDesign>>), can_ask_for |-> L(<<>>),
    introduces_to |-> L(<<>>), trust_level |-> S("low"),
    energy |-> S("draining"), positives |-> L(<<>>),
    negatives |-> L(<<TextAlwaysLate, TextLateAgain>>) ]

\* a connection as the import writes a row without company or position, never
\* enriched
Bare == [ connected_date |-> S(Iso20230101) ]

\* a hand-written entry: the identifier, the name and the strength, every
\* other key left out
HandWritten ==
  [ f \in DictKeys \ {"id", "name"} |->
      IF f = "relationship_strength" THEN S("warm") ELSE Absent ]

\* a close contact with every optional key there and null
Unset ==
  [ relationship_strength |-> S("close"), message_count |-> I(10),
    email |-> None, company |-> None, position |-> None, connected_date |-> None,
    last_message |-> None, context |-> None, domains |-> None, can_ask_for |-> None,
    has_asked_you |-> None, introduces_to |-> None, notes |-> None,
    last_contact |-> None, contact_frequency |-> None, positives |-> None,
    negatives |-> None, trust_level |-> None, energy |-> None ]

\* every optional field filled in, the three enum-like fields with values
\* outside the documented ones
OddEnums ==
  [ relationship_strength |-> S("acquaintance"), message_count |-> I(3),
    last_contact |-> S(Iso20230101), last_message |-> S(Iso20230101),
    connected_date |-> S(Iso20200101), email |-> S(<<"d">>),
    company |-> S(TextZed), position |-> S(TermFounder), notes |-> S(<<"n">>),
    domains |-> L(<<TagDesign>>), can_ask_for |-> L(<<>>),
    introduces_to |-> L(<<>>), trust_level |-> S("medium"),
    energy |-> S("mixed"), positives |-> L(<<TextKind>>), negatives |-> L(<<>>) ]

\* every optional field filled in, the last message dated with slashes
OddDate ==
  [ relationship_strength |-> S("warm"), message_count |-> I(3),
    last_contact |-> None, last_message |-> S(Slash20230115),
    connected_date |-> S(Iso20241201), email |-> S(<<"e">>),
    company |-> S(TextZed), position |-> S(TermFounder), notes |-> S(<<"n">>),
    domains |-> L(<<TagDesign>>), can_ask_for |-> L(<<>>),
    introduces_to |-> L(<<>>), trust_level |-> S("medium"),
    energy |-> S("neutral"), positives |-> L(<<TextKind>>), negatives |-> L(<<>>) ]

DerivedProfiles ==
  {Documented, Undocumented, LowTrust, Bare, HandWritten, Unset, OddEnums, OddDate}

\* network.yaml files of up to MaxDerived connections with the stats of their
\* import, hand-written ones of one connection without stats, and none
DerivedFiles ==
  {NoFile}
  \cup { [exists |-> TRUE, connections |-> Snapshot(ps), stats |-> StatsAsImported(ps)] :
           ps \in SeqsUpTo(DerivedProfiles, MaxDerived) }
  \cup { [exists |-> TRUE, connections |-> Snapshot(<<p>>), stats |-> NoStats] :
           p \in DerivedProfiles }

\* datetime.now() as the day 90 days before it (relationship_trajectory's
\* default lookback_days): now is 2023-03-01 or 2025-01-01
TrajectoryCutoffs ==
  { <<"2", "0", "2", "2", "-", "1", "2", "-", "0", "1">>,
    <<"2", "0", "2", "4", "-", "1", "0", "-", "0", "3">> }

\* interactions.yaml: missing, or with one interaction
InteractionsFiles ==
  { [exists |-> FALSE],
    [exists |-> TRUE, interactions |-> << [with |-> <<"P", " ", "1">>, medium |-> "call"] >>] }

\* goals.yaml's stated goals: none, and a primary goal with two secondary
\* ones, one of them empty
StatedGoals ==
  { [primary |-> <<>>, secondary |-> <<>>],
    [ primary |-> <<"G", "r", "o", "w", " ", "s", "a", "l", "e", "s">>,
      secondary |-> << <<>>, <<"h", "i", "r", "e", " ", "i", "n", "t", "r", "o">> >> ] }

\* the topics asked of domain_matches
Topics == {TagSales, TermFounder}

\* the domains asked of intro_paths
TargetDomains == {TermVc, TagSales, TagDesign}

DerivedInit ==
  /\ file \in DerivedFiles
  /\ goals = NoGoals
  /\ result = NoResult
  /\ conns = <<>>
  /\ messages = NoMessages
  /\ pc = "new"
  /\ origin = NoOrigin
  /\ existing = NoExisting
  /\ preserve = TRUE

\* network_intel.domain_matches(topic, min_strength=...)
DomainMatches ==
  /\ result = NoResult
  /\ \E topic \in Topics, min_strength \in {"cold", "warm"} :
       LET r == domain_matches(topic, load_network(file), min_strength)
       IN  result' = [ op |-> "domain_matches", topic |-> topic,
                       min_strength |-> min_strength,
                       raised |-> r.raised, out |-> r.out ]
  /\ UNCHANGED <<file, goals, parser>>

\* network_intel.intro_paths(target_domain)
IntroPaths ==
  /\ result = NoResult
  /\ \E target_domain \in TargetDomains :
       LET r == intro_paths(target_domain, load_network(file))
       IN  result' = [ op |-> "intro_paths", target_domain |-> target_domain,
                       raised |-> r.raised, out |-> r.out ]
  /\ UNCHANGED <<file, goals, parser>>

\* network_intel.network_summary()
NetworkSummary ==
  /\ result = NoResult
  /\ \E now \in Clocks :
       LET r == network_summary(load_network(file), now.cutoff)
       IN  result' = [ op |-> "network_summary", cutoff |-> now.cutoff,
                       raised |-> r.raised, out |-> r.out ]
  /\ file' = IF file.exists
             THEN [file EXCEPT !.stats = StatsAfterSummary(load_network(file))]
             ELSE file
  /\ UNCHANGED <<goals, parser>>

\* pattern_detect.domain_clusters()
DomainClusters ==
  /\ result = NoResult
  /\ LET r == domain_clusters(load_network(file))
     IN  result' = [op |-> "domain_clusters", raised |-> r.raised, out |-> r.out]
  /\ UNCHANGED <<file, goals, parser>>

\* pattern_detect.relationship_trajectory()
RelationshipTrajectory ==
  /\ result = NoResult
  /\ \E cutoff \in TrajectoryCutoffs :
       LET r == relationship_trajectory(load_network(file), cutoff)
       IN  result' = [ op |-> "relationship_trajectory", cutoff |-> cutoff,
                       raised |-> r.raised, out |-> r.out ]
  /\ UNCHANGED <<file, goals, parser>>

\* pattern_detect.trust_patterns()
TrustPatterns ==
  /\ result = NoResult
  /\ LET r == trust_patterns(load_network(file))
     IN  result' = [op |-> "trust_patterns", raised |-> r.raised, out |-> r.out]
  /\ UNCHANGED <<file, goals, parser>>

\* pattern_detect.energy_patterns()
EnergyPatterns ==
  /\ result = NoResult
  /\ LET r == energy_patterns(load_network(file))
     IN  result' = [op |-> "energy_patterns", raised |-> r.raised, out |-> r.out]
  /\ UNCHANGED <<file, goals, parser>>

\* pattern_detect.blind_spot_detection()
BlindSpotDetection ==
  /\ result = NoResult
  /\ \E now \in Clocks :
       LET r == blind_spot_detection(load_network(file), now.one_year_ago)
       IN  result' = [ op |-> "blind_spot_detection", one_year_ago |-> now.one_year_ago,
                       raised |-> r.raised, out |-> r.out ]
  /\ UNCHANGED <<file, goals, parser>>

\* pattern_detect.communication_patterns()
CommunicationPatterns ==
  /\ result = NoResult
  /\ \E f \in InteractionsFiles :
       LET r == communication_patterns(load_network(file), load_interactions(f))
       IN  result' = [ op |-> "communication_patterns", interactions |-> f,
                       raised |-> r.raised, out |-> r.out ]
  /\ UNCHANGED <<file, goals, parser>>

\* pattern_detect.positive_negative_insights()
PositiveNegativeInsights ==
  /\ result = NoResult
  /\ LET r == positive_negative_insights(load_network(file))
     IN  result' = [ op |-> "positive_negative_insights",
                     raised |-> r.raised, out |-> r.out ]
  /\ UNCHANGED <<file, goals, parser>>

\* goal_alignment.network_goal_fit(goals), with the stated goals of goals
NetworkGoalFit ==
  /\ result = NoResult
  /\ \E stated \in StatedGoals :
       LET r == network_goal_fit(stated, load_network(file))
       IN  result' = [ op |-> "network_goal_fit", stated |-> stated,
                       raised |-> r.raised, out |-> r.out ]
  /\ UNCHANGED <<file, goals, parser>>

\* brain.network.connections and brain.network.stats
AccessorData ==
  /\ result = NoResult
  /\ file.exists
  /\ result' = [ op |-> "NetworkAccessor.connections", raised |-> FALSE,
                 out |-> [connections |-> file.connections, stats |-> file.stats] ]
  /\ UNCHANGED <<file, goals, parser>>

\* brain.network.domain_matches(domain)
AccessorDomainMatches ==
  /\ result = NoResult
  /\ file.exists
  /\ \E domain \in {TagSales} :
       LET r == NetworkAccessor_domain_matches(file.connections, domain)
       IN  result' = [ op |-> "NetworkAccessor.domain_matches", domain |-> domain,
                       raised |-> r.raised, out |-> r.out ]
  /\ UNCHANGED <<file, goals, parser>>

\* brain.network.by_strength(strength)
AccessorByStrength ==
  /\ result = NoResult
  /\ file.exists
  /\ \E strength \in {"warm"} :
       result' = [ op |-> "NetworkAccessor.by_strength", strength |-> strength,
                   raised |-> FALSE,
                   out |-> NetworkAccessor_by_strength(file.connections, strength) ]
  /\ UNCHANGED <<file, goals, parser>>

\* brain.network.high_trust()
AccessorHighTrust ==
  /\ result = NoResult
  /\ file.exists
  /\ result' = [ op |-> "NetworkAccessor.high_trust", raised |-> FALSE,
                 out |-> NetworkAccessor_high_trust(file.connections) ]
  /\ UNCHANGED <<file, goals, parser>>

\* brain.network.energizing() and brain.network.draining()
AccessorByEnergy ==
  /\ result = NoResult
  /\ file.exists
  /\ \E energy \in {"energizing", "draining"} :
       result' = [ op |-> IF energy = "energizing" THEN "NetworkAccessor.energizing"
                                                        ELSE "NetworkAccessor.draining", raised |-> FALSE,
                   out |-> NetworkAccessor_by_energy(file.connections, energy) ]
  /\ UNCHANGED <<file, goals, parser>>

\* brain.network.search(query)
AccessorSearch ==
  /\ result = NoResult
  /\ file.exists
  /\ \E query \in {TextAcme} :
       result' = [ op |-> "NetworkAccessor.search", query |-> query, raised |-> FALSE,
                   out |-> NetworkAccessor_search(file.connections, query) ]
  /\ UNCHANGED <<file, goals, parser>>

DerivedNext ==
  \/ StaleRelationships
  \/ DomainMatches
  \/ NetworkGaps
  \/ IntroPaths
  \/ NetworkSummary
  \/ DomainClusters
  \/ RelationshipTrajectory
  \/ TrustPatterns
  \/ EnergyPatterns
  \/ BlindSpotDetection
  \/ CommunicationPatterns
  \/ PositiveNegativeInsights
  \/ NetworkGoalFit
  \/ AccessorData
  \/ AccessorDomainMatches
  \/ AccessorByStrength
  \/ AccessorHighTrust
  \/ AccessorByEnergy
  \/ AccessorGet
  \/ AccessorSearch
  \/ Done

DerivedSpec == DerivedInit /\ [][DerivedNext]_vars


(***************************************************************************)
(* Properties of the derivations on irregular data                         *)
(***************************************************************************)

\* the functions that map a snapshot to a list of insights or patterns
ListDerivations ==
  { "stale_relationships", "domain_matches", "network_gaps", "intro_paths",
    "trust_patterns", "energy_patterns", "blind_spot_detection", "domain_clusters" }

\* a date field that is missing, null, empty or a "%Y-%m-%d" date
DateOrUnset(conn, f) ==
  Truthy(Get(conn, f)) => Strptime(Get(conn, f).v, 3).ok

\* an enum-like field that is missing, null or one of the documented values
EnumOrUnset(conn, f, values) ==
  Get(conn, f) # None => Get(conn, f) \in values

DocumentedTrust == {S("high"), S("medium"), S("low"), S("unknown")}

DocumentedEnergy == {S("energizing"), S("neutral"), S("draining")}

DocumentedEnums(conn) ==
  /\ EnumOrUnset(conn, "relationship_strength", KnownStrengths)
  /\ EnumOrUnset(conn, "trust_level", DocumentedTrust)
  /\ EnumOrUnset(conn, "energy", DocumentedEnergy)

IsoDates(conn) ==
  /\ DateOrUnset(conn, "last_contact")
  /\ DateOrUnset(conn, "last_message")
  /\ DateOrUnset(conn, "connected_date")

\* the optional fields of the derivations
OptionalFields ==
  { "company", "position", "notes", "domains", "can_ask_for", "introduces_to",
    "last_message", "last_contact", "trust_level", "energy" }

\* the snapshot's only irregularity is missing data
OnlyMissing(cs) ==
  \A i \in 1..Len(cs) : DocumentedEnums(cs[i]) /\ IsoDates(cs[i])

\* C14: on a snapshot whose connections have optional fields absent or null,
\* and nothing else irregular, none of stale_relationships, domain_matches,
\* network_gaps, intro_paths, trust_patterns, energy_patterns,
\* blind_spot_detection and domain_clusters raises: each returns a list
C14_NoRaiseOnMissingData ==
  (result.op \in ListDerivations /\ OnlyMissing(Loaded)) => ~result.raised

\* what holds instead: such a call raises only if a connection it reads has a
\* null domains, can_ask_for or introduces_to, or a null position or company
RaisesOnlyOnNull ==
  (result.op \in ListDerivations /\ OnlyMissing(Loaded) /\ result.raised) =>
    \E i \in 1..Len(Loaded) :
      \E f \in {"domains", "can_ask_for", "introduces_to", "position", "company"} :
        Loaded[i][f] = None

\* missing keys alone are harmless: a snapshot whose unset fields are all left
\* out rather than null makes no derivation raise
C14_AbsentKeysNeverRaise ==
  ( /\ result.op \in ListDerivations
    /\ OnlyMissing(Loaded)
    /\ \A i \in 1..Len(Loaded) : \A f \in OptionalFields : Loaded[i][f] # None ) =>
    ~result.raised

\* intro_paths raised on a connection as the import writes it
C14_RaisedOnImported ==
  /\ result.op = "intro_paths"
  /\ result.raised
  /\ Len(Loaded) = 1
  /\ Loaded[1].company = None
  /\ Loaded[1].domains = L(<<>>)


\* the functions that compare a stored date with a cutoff
DateDerivations ==
  {"stale_relationships", "relationship_trajectory", "blind_spot_detection"}

\* no text or list field of the snapshot is null
NoNullFields(cs) ==
  \A i \in 1..Len(cs) :
    \A f \in {"company", "position", "notes", "domains", "can_ask_for", "introduces_to"} :
      cs[i][f] # None

\* conn is warm or close and its last_contact or last_message is a string
\* that is no "%Y-%m-%d" date
MalformedTouch(conn) ==
  /\ StrengthOr(conn) \in {S("warm"), S("close")}
  /\ \E f \in {"last_contact", "last_message"} :
       Truthy(Get(conn, f)) /\ ~Strptime(Get(conn, f).v, 3).ok

\* the snapshot's only irregularity is malformed dates of warm or close
\* connections
OnlyMalformedDates(cs) ==
  /\ NoNullFields(cs)
  /\ \A i \in 1..Len(cs) :
       DocumentedEnums(cs[i]) /\ (IsoDates(cs[i]) \/ MalformedTouch(cs[i]))

\* C15: a malformed date string in last_contact or last_message of a warm or
\* close connection never makes stale_relationships, relationship_trajectory
\* or blind_spot_detection raise
C15_MalformedDateNonFatal ==
  ( /\ result.op \in DateDerivations
    /\ OnlyMalformedDates(Loaded)
    /\ \E i \in 1..Len(Loaded) : MalformedTouch(Loaded[i]) ) =>
    ~result.raised

\* what holds instead: of the three only stale_relationships raises, and
\* only when the malformed last touch sorts before the cutoff
MalformedDateRaisesWhenBefore ==
  (result.op \in DateDerivations /\ OnlyMalformedDates(Loaded)) =>
    ( result.raised <=>
        /\ result.op = "stale_relationships"
        /\ \E i \in 1..Len(Loaded) :
             /\ MalformedTouch(Loaded[i])
             /\ StrLess(last_touch(Loaded[i]).v, result.cutoff) )

\* relationship_trajectory reports a connection with a malformed last message
\* as cooling, by the comparison of the strings
C15_TrajectoryWitness ==
  /\ result.op = "relationship_trajectory"
  /\ ~result.raised
  /\ Len(Loaded) = 1
  /\ MalformedTouch(Loaded[1])
  /\ Len(result.out) = 1
  /\ result.out[1].type = "cooling"

\* stale_relationships returns when the malformed last touch does not sort
\* before the cutoff
C15_StaleReturnsWitness ==
  /\ result.op = "stale_relationships"
  /\ ~result.raised
  /\ \E i \in 1..Len(Loaded) : MalformedTouch(Loaded[i])


\* the analysis functions that read the enum-like fields
EnumAnalyses ==
  { "network_summary", "domain_clusters", "trust_patterns", "energy_patterns",
    "stale_relationships", "domain_matches" }

\* an enum-like field of conn has a value outside the documented ones
OddEnum(conn) == ~DocumentedEnums(conn)

\* the snapshot's only irregularity is enum-like values outside the
\* documented ones
OnlyOddEnums(cs) ==
  /\ NoNullFields(cs)
  /\ \A i \in 1..Len(cs) : IsoDates(cs[i])

\* C16: a trust_level, energy or relationship_strength outside the
\* documented values never makes network_summary, domain_clusters,
\* trust_patterns, energy_patterns, stale_relationships or domain_matches
\* raise
C16_OddEnumNeverRaises ==
  ( /\ result.op \in EnumAnalyses
    /\ OnlyOddEnums(Loaded)
    /\ \E i \in 1..Len(Loaded) : OddEnum(Loaded[i]) ) =>
    ~result.raised

\* what holds instead: only domain_clusters raises, on a tagged connection
\* whose relationship_strength is none of close, warm, cold
OddEnumRaisesInClusters ==
  (result.op \in EnumAnalyses /\ OnlyOddEnums(Loaded)) =>
    ( result.raised <=>
        /\ result.op = "domain_clusters"
        /\ UnkeyedStrength(Loaded) )

\* the connection of odd enums fails the filters of the known values:
\* stale_relationships returns nothing for it
C16_FilteredWitness ==
  /\ result.op = "stale_relationships"
  /\ ~result.raised
  /\ Len(Loaded) = 1
  /\ OddEnum(Loaded[1])
  /\ result.out = <<>>


(***************************************************************************)
(* The loaders: network_intel.py, pattern_detect.py, goal_alignment.py,    *)
(* sdk/python/brain/loaders.py, Brain.load                                 *)
(***************************************************************************)

\* loaders.load_yaml(relative_path): FileNotFoundError for a file that is not
\* there
load_yaml(f) ==
  IF ~f.exists THEN Raised ELSE Returned(f)

\* loaders.load_network(): load_yaml('human/network.yaml') or {'connections': []};
\* the default is for a network.yaml that holds no document, and every file of
\* the model that is there holds one
loaders_load_network(f) ==
  LET data == load_yaml(f)
  IN  IF data.raised THEN Raised
      ELSE Returned([connections |-> data.out.connections, stats |-> data.out.stats])

\* the files Brain.load() reads before network.yaml, in its order
BrainFiles ==
  << "state.json", "graph/entities.yaml", "graph/relationships.yaml",
     "graph/predictions.yaml", "agenda.yaml" >>

\* Brain.load(), as the network data the Brain holds: every loader before
\* load_network raises on its missing file
Brain_load(present, f) ==
  IF \E k \in 1..Len(BrainFiles) : BrainFiles[k] \notin present
  THEN Raised
  ELSE loaders_load_network(f)

\* the brain directory: complete, or without its agenda
BrainDirs ==
  { {BrainFiles[k] : k \in 1..Len(BrainFiles)},
    {BrainFiles[k] : k \in 1..(Len(BrainFiles) - 1)} }

\* network_intel.load_network(), pattern_detect.load_network(),
\* goal_alignment.load_network()
LoadNetwork ==
  /\ result = NoResult
  /\ result' = [ op |-> "load_network", missing |-> ~file.exists, raised |-> FALSE,
                 out |-> load_network(file) ]
  /\ UNCHANGED <<file, goals, parser>>

\* load_interactions()
LoadInteractions ==
  /\ result = NoResult
  /\ \E f \in InteractionsFiles :
       result' = [ op |-> "load_interactions", missing |-> ~f.exists, raised |-> FALSE,
                   out |-> load_interactions(f) ]
  /\ UNCHANGED <<file, goals, parser>>

\* goal_alignment.load_goals()
LoadGoals ==
  /\ result = NoResult
  /\ result' = [ op |-> "load_goals", missing |-> ~goals.exists, raised |-> FALSE,
                 out |-> load_goals(goals) ]
  /\ UNCHANGED <<file, goals, parser>>

\* loaders.load_network()
SdkLoadNetwork ==
  /\ result = NoResult
  /\ LET r == loaders_load_network(file)
     IN  result' = [ op |-> "loaders.load_network", missing |-> ~file.exists,
                     raised |-> r.raised, out |-> r.out ]
  /\ UNCHANGED <<file, goals, parser>>

\* Brain.load()
BrainLoad ==
  /\ result = NoResult
  /\ \E present \in BrainDirs :
       LET r == Brain_load(present, file)
       IN  result' = [ op |-> "Brain.load", missing |-> ~file.exists,
                       present |-> present, raised |-> r.raised, out |-> r.out ]
  /\ UNCHANGED <<file, goals, parser>>

LoaderNext ==
  \/ LoadNetwork
  \/ LoadInteractions
  \/ LoadGoals
  \/ SdkLoadNetwork
  \/ BrainLoad
  \/ Done

LoaderSpec == AnalysisInit /\ [][LoaderNext]_vars

\* the loaders of the analysis modules
AnalysisLoaders == {"load_network", "load_interactions", "load_goals"}

\* what a loader gave holds nothing: no connections, no interactions, no goals
EmptyLoad(op, out) ==
  CASE op \in {"load_network", "loaders.load_network", "Brain.load"} -> out.connections = <<>>
    [] op = "load_interactions" -> out.interactions = <<>>
    [] op = "load_goals" -> out.empty

\* C17: loading from a source file that does not exist never fails and
\* yields an empty snapshot, in the analysis loaders (load_network,
\* load_interactions, load_goals) and in the SDK loader (loaders.load_network,
\* used by Brain.load)
C17_MissingFileLoadsEmpty ==
  ( /\ result.op \in AnalysisLoaders \cup {"loaders.load_network", "Brain.load"}
    /\ result.missing
    /\ result.op = "Brain.load" => result.present = CHOOSE d \in BrainDirs : "agenda.yaml" \in d ) =>
    /\ ~result.raised
    /\ EmptyLoad(result.op, result.out)

\* what holds instead: the analysis loaders give an empty result for a
\* missing file, and the SDK loader raises for it
MissingFileBySide ==
  result.op \in AnalysisLoaders \cup {"loaders.load_network", "Brain.load"} =>
    /\ (result.op \in AnalysisLoaders /\ result.missing) =>
         ~result.raised /\ EmptyLoad(result.op, result.out)
    /\ (result.op = "loaders.load_network") => (result.raised <=> result.missing)
    /\ (result.op = "Brain.load" /\ result.missing) => result.raised

\* an analysis loader read a missing network.yaml
C17_AnalysisWitness ==
  /\ result.op = "load_network"
  /\ result.missing
  /\ result.out.connections = <<>>


SomeUndocumentedTrust(cs) ==
  \E i \in 1..Len(cs) :
    /\ Get(cs[i], "trust_level") = S("high")
    /\ IsEmpty(GetOr(cs[i], "positives", L(<<>>)))

\* some connection was connected before one_year_ago and has no trust level,
\* positives or negatives
SomeOldUnassessed(cs, one_year_ago) ==
  \E i \in 1..Len(cs) :
    /\ ~IsEmpty(Get(cs[i], "connected_date"))
    /\ Earlier(Get(cs[i], "connected_date").v, one_year_ago)
    /\ IsEmpty(Get(cs[i], "trust_level"))
    /\ IsEmpty(GetOr(cs[i], "positives", L(<<>>)))
    /\ IsEmpty(GetOr(cs[i], "negatives", L(<<>>)))

\* the tags of the connections that have any, one entry for every occurrence
TagOccurrences(cs) ==
  LET Tagged(c) == ~IsEmpty(DomainsOf(c))
      tagged == SelectSeq(cs, Tagged)
  IN  Flatten([k \in 1..Len(tagged) |-> DomainsOf(tagged[k]).v])

\* some tag is more than 40% of all tag occurrences
SomeDominantTag(cs) ==
  LET tags == TagOccurrences(cs)
  IN  \E k \in 1..Len(tags) : 10 * Occurrences(tags, tags[k]) > 4 * Len(tags)

\* the pattern types the three conditions call for, in their order
BlindSpotsAsClaimed(cs, one_year_ago) ==
  (IF SomeUndocumentedTrust(cs) THEN <<"undocumented_trust">> ELSE <<>>)
  \o (IF SomeOldUnassessed(cs, one_year_ago) THEN <<"old_unassessed">> ELSE <<>>)
  \o (IF SomeDominantTag(cs) THEN <<"potential_echo_chamber">> ELSE <<>>)

\* C19: blind_spot_detection emits undocumented_trust iff some connection has
\* trust_level high and no positives, old_unassessed iff some connection was
\* connected more than 365 days before now and has no trust level, positives
\* or negatives, potential_echo_chamber iff some domain tag is strictly more
\* than 40% of all domain-tag occurrences; the patterns come in that order
C19_BlindSpots ==
  result.op = "blind_spot_detection" =>
    /\ ~result.raised
    /\ [k \in 1..Len(result.out) |-> result.out[k].type]
         = BlindSpotsAsClaimed(Loaded, result.one_year_ago)

\* what holds instead: the same, of every call that returns
BlindSpotsWhenReturned ==
  (result.op = "blind_spot_detection" /\ ~result.raised) =>
    [k \in 1..Len(result.out) |-> result.out[k].type]
      = BlindSpotsAsClaimed(Loaded, result.one_year_ago)

\* all three patterns at once
C19_AllThree ==
  /\ result.op = "blind_spot_detection"
  /\ ~result.raised
  /\ Len(result.out) = 3

\* a tag at exactly 40% of the occurrences, and no echo chamber reported
C19_ExactlyFortyPercent ==
  /\ result.op = "blind_spot_detection"
  /\ ~result.raised
  /\ \E k \in 1..Len(TagOccurrences(Loaded)) :
       10 * Occurrences(TagOccurrences(Loaded), TagOccurrences(Loaded)[k])
         = 4 * Len(TagOccurrences(Loaded))
  /\ \A k \in 1..Len(result.out) : result.out[k].type # "potential_echo_chamber"

\* an unassessed connection connected less than 365 days before now, and no
\* old_unassessed reported
C19_RecentUnassessed ==
  /\ result.op = "blind_spot_detection"
  /\ ~result.raised
  /\ Loaded # <<>>
  /\ \A i \in 1..Len(Loaded) :
       /\ Loaded[i].connected_date = S(Iso20230101)
       /\ IsEmpty(Get(Loaded[i], "trust_level"))
  /\ result.out = <<>>


(***************************************************************************)
(* One import batch: the identifiers parse_connections assigns             *)
(***************************************************************************)

\* the most rows of a batch
MaxBatch == 4

\* rows of a Connections.csv: three people whose names normalise to
\* conn.al-bo, a fourth person, and a row without a first name
BatchRows ==
  { ConnRow(NameAl, NameBo, <<"X">>, <<>>),
    ConnRow(<<"A", "l", " ">>, <<"B", "-", "o">>, <<"Y">>, <<>>),
    ConnRow(<<"A", "L">>, <<"B", "O">>, <<"Z">>, <<>>),
    ConnRow(<<"C", "y">>, <<"D", "e", "e">>, <<"W">>, <<>>),
    ConnRow(<<" ">>, NameBo, <<"V">>, <<>>) }

\* parser = LinkedInParser(export_path); parser.parse_connections(): what it
\* returns is the number of rows it kept
ParseBatch ==
  /\ pc = "new"
  /\ result = NoResult
  /\ \E rows \in SeqsUpTo(BatchRows, MaxBatch) :
       /\ conns' = ParseRows(conns, rows)
       /\ result' = [ op |-> "parse_connections", rows |-> rows, raised |-> FALSE,
                      out |-> Len(ParseRows(conns, rows)) ]
  /\ pc' = "connections"
  /\ UNCHANGED <<file, messages, origin, existing, preserve, goals>>

\* the next batch gets a parser of its own
NextBatch ==
  /\ pc = "connections"
  /\ conns' = <<>>
  /\ pc' = "new"
  /\ result' = NoResult
  /\ UNCHANGED <<file, messages, origin, existing, preserve, goals>>

BatchNext ==
  \/ ParseBatch
  \/ NextBatch

BatchSpec == Init /\ [][BatchNext]_vars

\* the row has a first name: parse_connections keeps it
HasFirstName(row) == Strip(row.first) # <<>>

\* "conn.<first>-<last>" of the row's normalised names
BaseOf(row) == make_id(Strip(row.first), Strip(row.last))

\* how many of the first j kept rows have the base identifier of the j-th
RankInBatch(kept, j) ==
  Cardinality({i \in 1..j : BaseOf(kept[i]) = BaseOf(kept[j])})

\* the bare base identifier for the first row of a base, the base with "-k"
\* for the k-th
IdByEncounter(kept, j) ==
  IF RankInBatch(kept, j) = 1
  THEN BaseOf(kept[j])
  ELSE BaseOf(kept[j]) \o <<"-">> \o IntToStr(RankInBatch(kept, j))

\* C20: within one batch the identifiers go by row encounter order: the
\* connection of the first row of a base identifier has the bare
\* "conn.<first>-<last>", that of the k-th such row the base with suffix "-k"
C20_IdsInEncounterOrder ==
  result.op = "parse_connections" =>
    LET kept == SelectSeq(result.rows, HasFirstName)
    IN  /\ Len(conns) = Len(kept)
        /\ result.out = Len(kept)
        /\ \A j \in 1..Len(kept) :
             /\ conns[j].id = IdByEncounter(kept, j)
             /\ conns[j].company = StripOrNone(kept[j].company)
             /\ conns[j].first_name = Strip(kept[j].first)

\* the identifier the person of company holds after a batch of rows
HolderId(rows, company) ==
  LET parsed == ParseRows(<<>>, rows)
  IN  (CHOOSE c \in {parsed[i] : i \in 1..Len(parsed)} : c.company = S(company)).id

\* rows2 holds the rows of rows, each as often, in another order
IsPermutation(rows, rows2) ==
  /\ Len(rows) = Len(rows2)
  /\ \A r \in BatchRows :
       Cardinality({i \in 1..Len(rows) : rows[i] = r})
         = Cardinality({i \in 1..Len(rows2) : rows2[i] = r})

\* three rows of one base identifier were parsed, the third got "-3", and the
\* same rows in another order give two of the people other identifiers
C20_Witness ==
  /\ result.op = "parse_connections"
  /\ Len(conns) = 3
  /\ conns[3].id = make_id(NameAl, NameBo) \o <<"-", "3">>
  /\ \A i, j \in 1..3 : i # j => result.rows[i] # result.rows[j]
  /\ \E rows2 \in [1..3 -> BatchRows] :
       /\ IsPermutation(result.rows, rows2)
       /\ HolderId(rows2, <<"X">>) # HolderId(result.rows, <<"X">>)
       /\ HolderId(rows2, <<"Z">>) # HolderId(result.rows, <<"Z">>)


(***************************************************************************)
(* The import log entry of an export                                       *)
(***************************************************************************)

\* the ids of the batch that the snapshot held before the export
ImportedAndStored == IdsOf(conns) \cap IdsOf(existing.file.connections)

\* the ids of the batch that the snapshot did not hold before the export
ImportedNotStored == IdsOf(conns) \ IdsOf(existing.file.connections)

\* C21: the import log entry of an export reports as added the imported ids
\* that were not in the existing snapshot and as updated the imported ids that
\* were in it; both counts are non-negative and sum to the imported connections
C21_ImportLogCounts ==
  pc = "exported" =>
    /\ file.import_log.connections_added = Cardinality(ImportedNotStored)
    /\ file.import_log.connections_updated = Cardinality(ImportedAndStored)
    /\ file.import_log.connections_added >= 0
    /\ file.import_log.connections_updated >= 0
    /\ file.import_log.connections_added + file.import_log.connections_updated
         = Len(conns)

\* what the log entry holds instead: the size of the stored snapshot as updated
\* (nothing when preserve_manual is off), and the difference as added
C21_LogCountsStored ==
  pc = "exported" =>
    /\ file.import_log.connections_updated
         = IF preserve THEN Cardinality(IdsOf(existing.file.connections)) ELSE 0
    /\ file.import_log.connections_added
         = Len(conns) - file.import_log.connections_updated

\* the counts are as claimed when preserve_manual is on and every stored id
\* is in the batch
C21_CountsWhenStoredInBatch ==
  (/\ pc = "exported"
   /\ preserve
   /\ IdsOf(existing.file.connections) \subseteq IdsOf(conns)) =>
    /\ file.import_log.connections_added = Cardinality(ImportedNotStored)
    /\ file.import_log.connections_updated = Cardinality(ImportedAndStored)

\* an export over a snapshot holding an id that is absent from the batch
C21_StoredIdAbsentFromBatch ==
  /\ pc = "exported"
  /\ preserve
  /\ Len(conns) = 1
  /\ Cardinality(IdsOf(existing.file.connections)) = 2
  /\ file.import_log.connections_added = -1
  /\ file.import_log.connections_updated = 2


(***************************************************************************)
(* generate_action_items: the order of the returned list                   *)
(***************************************************************************)

\* the actions the call appended, in collection order, before the sort
CollectedNow ==
  LET network == load_network(file)
  IN  CollectActions(stale_relationships(network, result.now.cutoff).out,
                     network_gaps(network, DefaultTargetDomains).out,
                     energizing_connections(network).out,
                     blind_spot_detection(network, result.now.one_year_ago).out,
                     stated_vs_revealed(load_goals(goals)))

\* a generate_action_items call on a populated snapshot has returned
ActionsReturned ==
  /\ result.op = "generate_action_items"
  /\ ~result.raised
  /\ Loaded # <<>>

\* the actions of one priority rank, in the order of the list
OfRank(actions, rank) ==
  LET HasRank(x) == priority_order(x) = rank
  IN  SelectSeq(actions, HasRank)

IsPrefix(a, b) == Len(a) <= Len(b) /\ a = SubSeq(b, 1, Len(a))

\* where in the collection order the source of an action stands
CollectionPlace(x) ==
  CASE x.reason = "stale" -> 1
    [] x.reason = "gap" -> 2
    [] x.reason = "draining" -> 3
    [] x.reason = "misaligned" -> 5
    [] OTHER -> 4

\* C22: the returned list is ordered by priority rank; among actions of equal
\* priority the order is the collection order stale, gaps, draining, blind
\* spots, misalignments; and the cut to 10 is applied after the sort
C22_SortedThenCut ==
  ActionsReturned =>
    /\ \A i, j \in 1..Len(result.out) :
         i < j =>
           /\ priority_order(result.out[i]) <= priority_order(result.out[j])
           /\ priority_order(result.out[i]) = priority_order(result.out[j])
                => CollectionPlace(result.out[i]) <= CollectionPlace(result.out[j])
    /\ \A rank \in 0..3 :
         /\ IsPrefix(OfRank(result.out, rank), OfRank(CollectedNow, rank))
         /\ OfRank(result.out, rank) # OfRank(CollectedNow, rank)
              => \A later \in (rank + 1)..3 : OfRank(result.out, later) = <<>>
    /\ Len(result.out)
         = IF Len(CollectedNow) < ActionCap THEN Len(CollectedNow) ELSE ActionCap

\* more than 10 actions were collected, a medium one before a high one; the
\* list returned starts with the stale actions, goes on with misalignments,
\* and the cut fell on what the sort had put last
C22_Witness ==
  /\ ActionsReturned
  /\ Len(CollectedNow) > ActionCap
  /\ \E i, j \in 1..Len(CollectedNow) :
       i < j /\ CollectedNow[i].priority = "medium" /\ CollectedNow[j].priority = "high"
  /\ result.out[1].reason = "stale"
  /\ result.out[ActionCap].reason = "misaligned"
  /\ OfRank(result.out, 1) = <<>>

\* fewer than 10 actions of all three priorities, with two sources of one
\* priority, were collected and returned in rank order
C22_AllRanks ==
  /\ ActionsReturned
  /\ Len(CollectedNow) < ActionCap
  /\ \A rank \in 0..2 : OfRank(result.out, rank) # <<>>
  /\ \E i, j \in 1..Len(result.out) :
       /\ result.out[i].reason = "stale" /\ result.out[j].reason = "misaligned"
  /\ \E i, j \in 1..Len(result.out) :
       /\ result.out[i].reason = "gap" /\ result.out[j].reason = "undocumented_trust"


(***************************************************************************)
(* generate_action_items on snapshots with thin and missing domains        *)
(***************************************************************************)

TagDistribution == <<"d", "i", "s", "t", "r", "i", "b", "u", "t", "i", "o", "n">>

\* a warm contact met recently, tagged with the first two default target
\* domains
Distributor ==
  [ relationship_strength |-> S("warm"), message_count |-> I(3),
    last_contact |-> S(Iso20241201), connected_date |-> S(Iso20241201),
    domains |-> L(<<TagDistribution, TagSales>>) ]

ActionProfiles == {CloseStale, WarmStale, CloseFresh, Distributor}

\* network.yaml files of up to MaxConns connections, and none
ActionFiles ==
  {NoFile} \cup
  { [exists |-> TRUE, connections |-> Snapshot(ps), stats |-> StatsAsImported(ps)] :
      ps \in SeqsUpTo(ActionProfiles, MaxConns) }

ActionsInit ==
  /\ file \in ActionFiles
  /\ goals \in GoalsFiles
  /\ result = NoResult
  /\ conns = <<>>
  /\ messages = NoMessages
  /\ pc = "new"
  /\ origin = NoOrigin
  /\ existing = NoExisting
  /\ preserve = TRUE

ActionsNext ==
  \/ GenerateActionItems
  \/ StaleRelationships
  \/ NetworkGaps
  \/ BlindSpotDetection
  \/ Done

ActionsSpec == ActionsInit /\ [][ActionsNext]_vars

\* what network_gaps() gives generate_action_items
GapsNow == network_gaps(load_network(file), DefaultTargetDomains).out

IsGapAction(x) == x.reason = "gap"

\* C23: for a non-empty snapshot generate_action_items collects one "build
\* network" action for each of the first two high-priority gaps of
\* network_gaps, however many thin-coverage insights stand before them
C23_TopTwoHighGaps ==
  ActionsReturned =>
    LET top == Take(SelectSeq(GapsNow, IsHigh), 2)
        built == SelectSeq(CollectedNow, IsGapAction)
    IN  /\ Len(built) = Len(top)
        /\ \A k \in 1..Len(top) : built[k].ref = top[k].message.domain

\* what holds instead: a gap action for each high-priority insight among the
\* first two insights of network_gaps, of either priority
C23_HighAmongFirstTwo ==
  (ActionsReturned /\ Len(CollectedNow) <= ActionCap) =>
    LET built == SelectSeq(result.out, IsGapAction)
        HighAt(k) == k <= Len(GapsNow) /\ GapsNow[k].priority = "high"
    IN  /\ Len(built) = Cardinality({k \in 1..2 : HighAt(k)})
        /\ \A k \in 1..Len(built) : built[k].priority = "medium"
        /\ HighAt(1) => built[1].ref = GapsNow[1].message.domain
        /\ (~HighAt(1) /\ HighAt(2)) => built[1].ref = GapsNow[2].message.domain
        /\ (HighAt(1) /\ HighAt(2)) => built[2].ref = GapsNow[2].message.domain

\* two thin-coverage insights stand before the first high-priority gap, and
\* the call returned no gap action
C23_HighGapBehindThin ==
  /\ ActionsReturned
  /\ Len(CollectedNow) <= ActionCap
  /\ GapsNow[1].priority = "medium"
  /\ GapsNow[2].priority = "medium"
  /\ GapsNow[3].priority = "high"
  /\ SelectSeq(result.out, IsGapAction) = <<>>

\* the claim's case without thin coverage before: the first two insights are
\* high-priority gaps and each gave an action
C23_TwoGapActions ==
  /\ ActionsReturned
  /\ Len(SelectSeq(result.out, IsGapAction)) = 2
  /\ GapsNow[1].priority = "high"
  /\ GapsNow[2].priority = "high"


\* what blind_spot_detection() gives generate_action_items
BlindSpotsNow ==
  blind_spot_detection(load_network(file), result.now.one_year_ago).out

IsBlindSpotAction(x) == x.reason \in {"undocumented_trust", "potential_echo_chamber"}

\* C24: for a non-empty snapshot generate_action_items collects a medium
\* action for each of the first two blind-spot patterns whose type contains
\* "undocumented" or "echo"; with undocumented_trust, old_unassessed and
\* potential_echo_chamber reported together, both of them give an action
C24_FirstTwoUndocumentedOrEcho ==
  ActionsReturned =>
    LET top == Take(SelectSeq(BlindSpotsNow, UndocumentedOrEcho), 2)
        acted == SelectSeq(CollectedNow, IsBlindSpotAction)
    IN  /\ Len(acted) = Len(top)
        /\ \A k \in 1..Len(top) :
             acted[k].reason = top[k].type /\ acted[k].priority = "medium"

\* what holds instead: an action for each undocumented or echo pattern among
\* the first two patterns of any type
C24_AmongFirstTwo ==
  (ActionsReturned /\ Len(CollectedNow) <= ActionCap) =>
    LET acted == SelectSeq(result.out, IsBlindSpotAction)
        At(k) == k <= Len(BlindSpotsNow) /\ UndocumentedOrEcho(BlindSpotsNow[k])
    IN  /\ Len(acted) = Cardinality({k \in 1..2 : At(k)})
        /\ \A k \in 1..Len(acted) : acted[k].priority = "medium"
        /\ At(1) => acted[1].reason = BlindSpotsNow[1].type
        /\ (~At(1) /\ At(2)) => acted[1].reason = BlindSpotsNow[2].type
        /\ (At(1) /\ At(2)) => acted[2].reason = BlindSpotsNow[2].type

\* all three patterns were reported and the echo chamber gave no action
C24_EchoBehindUnassessed ==
  /\ ActionsReturned
  /\ Len(CollectedNow) <= ActionCap
  /\ Len(BlindSpotsNow) = 3
  /\ BlindSpotsNow[2].type = "old_unassessed"
  /\ BlindSpotsNow[3].type = "potential_echo_chamber"
  /\ \A k \in 1..Len(result.out) : result.out[k].reason # "potential_echo_chamber"

\* undocumented trust and the echo chamber alone were reported and both gave
\* an action
C24_BothActed ==
  /\ ActionsReturned
  /\ Len(BlindSpotsNow) = 2
  /\ \E i, j \in 1..Len(result.out) :
       /\ i < j
       /\ result.out[i].reason = "undocumented_trust"
       /\ result.out[j].reason = "potential_echo_chamber"


(***************************************************************************)
(* Text-pattern mining: the words of positives and negatives               *)
(***************************************************************************)

\* the most connections of a snapshot with free-text assessments
MaxMining == 3

\* six words of four letters
SixTraits ==
  << <<"c", "a", "l", "m">>, <<"b", "o", "l", "d">>, <<"f", "a", "i", "r">>,
     <<"w", "a", "r", "m">>, <<"k", "e", "e", "n">>, <<"w", "i", "s", "e">> >>

\* ten words of up to three letters
TenShort ==
  << <<"h", "e">>, <<"i", "s">>, <<"t", "o">>, <<"a", "l", "l">>, <<"o", "f">>,
     <<"t", "h", "e">>, <<"a", "n", "d">>, <<"n", "o", "t">>, <<"o", "n">>, <<"i", "n">> >>

\* trusted for six traits, each written down twice
Praised ==
  [ relationship_strength |-> S("close"), trust_level |-> S("high"),
    positives |-> L(<<Join(SixTraits), Join(SixTraits)>>), negatives |-> L(<<>>) ]

\* distrusted, the reasons written in sentences: ten short words three times
\* each, and "late" twice
Wordy ==
  [ relationship_strength |-> S("cold"), trust_level |-> S("low"),
    positives |-> L(<<>>),
    negatives |-> L(<<Join(TenShort), Join(TenShort) \o <<" ">> \o TextAlwaysLate,
                      Join(TenShort) \o <<" ">> \o TextLateAgain>>) ]

\* distrusted, in few words
Terse ==
  [ relationship_strength |-> S("cold"), trust_level |-> S("low"),
    positives |-> L(<<TextKind>>), negatives |-> L(<<TextAlwaysLate, TextLateAgain>>) ]

MiningProfiles == {Praised, Wordy, Terse, Bare}

MiningFiles ==
  {NoFile} \cup
  { [exists |-> TRUE, connections |-> Snapshot(ps), stats |-> StatsAsImported(ps)] :
      ps \in SeqsUpTo(MiningProfiles, MaxMining) }

MiningInit ==
  /\ file \in MiningFiles
  /\ goals = NoGoals
  /\ result = NoResult
  /\ conns = <<>>
  /\ messages = NoMessages
  /\ pc = "new"
  /\ origin = NoOrigin
  /\ existing = NoExisting
  /\ preserve = TRUE

MiningNext ==
  \/ TrustPatterns
  \/ PositiveNegativeInsights
  \/ Done

MiningSpec == MiningInit /\ [][MiningNext]_vars

\* the words mined from free-text entries as claimed: lower-case words longer
\* than 3 characters, counted, those seen twice or more, the ten most common
\* with ties in first-encountered order
Mined(entries) ==
  LET LongWords(entry) == SelectSeq(Words(Lower(entry)), LongWord)
      words == Flatten([k \in 1..Len(entries) |-> LongWords(entries[k])])
      common == Take(SelectSeq(MostCommon(words), SeenTwice), 10)
  IN  [k \in 1..Len(common) |-> common[k].key]

\* every entry of a free-text field over the connections read, in order
EntriesOf(cs, field) ==
  Flatten([i \in 1..Len(cs) |-> GetOr(cs[i], field, L(<<>>)).v])

\* the negatives of the connections of low trust
LowTrustReasons == EntriesOf(SelectSeq(Loaded, IsLowTrust), "negatives")

\* the words the returned pattern of this type shows, none without the pattern
Surfaced(type) ==
  LET HasType(p) == p.type = type
      found == SelectSeq(result.out, HasType)
  IN  IF found = <<>> THEN <<>>
      ELSE IF type = "low_trust_patterns" THEN found[1].evidence
      ELSE [k \in 1..Len(found[1].evidence) |-> found[1].evidence[k].key]

TraitsReturned == result.op = "positive_negative_insights" /\ ~result.raised

TrustReturned == result.op = "trust_patterns" /\ ~result.raised

\* C25: valued_traits, watched_traits and low_trust_patterns surface exactly
\* the lower-case words longer than 3 characters that occur at least twice in
\* the free-text entries, the ten most common with ties in first-encountered
\* order; a word of 3 characters or fewer never changes which words surface
C25_MinedWords ==
  /\ TraitsReturned =>
       /\ Surfaced("valued_traits") = Mined(EntriesOf(Loaded, "positives"))
       /\ Surfaced("watched_traits") = Mined(EntriesOf(Loaded, "negatives"))
  /\ TrustReturned => Surfaced("low_trust_patterns") = Mined(LowTrustReasons)

\* what holds instead: the trait patterns show the first five of the claimed
\* words; low_trust_patterns shows a prefix of those five, cut short where
\* short words took places among the ten most common
C25_FirstFive ==
  /\ TraitsReturned =>
       /\ Surfaced("valued_traits") = Take(Mined(EntriesOf(Loaded, "positives")), 5)
       /\ Surfaced("watched_traits") = Take(Mined(EntriesOf(Loaded, "negatives")), 5)
  /\ TrustReturned =>
       IsPrefix(Surfaced("low_trust_patterns"), Take(Mined(LowTrustReasons), 5))

\* six traits were each written twice and five of them are shown
C25_SixthTraitDropped ==
  /\ TraitsReturned
  /\ Len(Mined(EntriesOf(Loaded, "positives"))) = 6
  /\ Len(Surfaced("valued_traits")) = 5

\* "late" stands twice in the reasons of low trust, behind ten short words
\* more common than it, and no low_trust_patterns is returned
C25_ShortWordsDisplace ==
  /\ TrustReturned
  /\ Mined(LowTrustReasons) = << <<"l", "a", "t", "e">> >>
  /\ Surfaced("low_trust_patterns") = <<>>

\* the claim's plain case: "late" twice in few words, shown by both functions
C25_LateSurfaced ==
  /\ TrustReturned
  /\ Surfaced("low_trust_patterns") = << <<"l", "a", "t", "e">> >>
  /\ Mined(LowTrustReasons) = Surfaced("low_trust_patterns")


(***************************************************************************)
(* network_goal_fit: one insight for every stated goal                     *)
(***************************************************************************)

GoalFitReturned == result.op = "network_goal_fit" /\ ~result.raised

\* the stated goals that are not empty, the primary one first
GoalsAsked ==
  SelectSeq(<<result.stated.primary>> \o result.stated.secondary, NonEmptyStr)

\* a word of the goal is within a domain tag of a connection read
WordInDomain(goal) ==
  \E i \in 1..Len(Loaded), w \in TagsOf(Words(Lower(goal))) :
    \E k \in 1..Len(DomainsOf(Loaded[i]).v) :
      Contains(Lower(DomainsOf(Loaded[i]).v[k]), w)

\* a word of the goal is within a can_ask_for entry of a connection read
WordInSkill(goal) ==
  \E i \in 1..Len(Loaded), w \in TagsOf(Words(Lower(goal))) :
    \E k \in 1..Len(SkillsOf(Loaded[i]).v) :
      Contains(Lower(SkillsOf(Loaded[i]).v[k]), w)

\* one insight for every goal asked, in order, or the one "no_goals" insight
OnePerGoal ==
  IF GoalsAsked = <<>>
  THEN Len(result.out) = 1 /\ result.out[1].type = "no_goals"
  ELSE /\ Len(result.out) = Len(GoalsAsked)
       /\ \A k \in 1..Len(GoalsAsked) :
            /\ result.out[k].stated = GoalsAsked[k]
            /\ result.out[k].type \in {"aligned", "gap"}

C26_AlignedByDomain ==
  /\ GoalFitReturned
  /\ Len(GoalsAsked) = 2
  /\ result.out[1].type = "aligned"
  /\ WordInDomain(GoalsAsked[1])
  /\ result.out[2].type = "gap"

\* no goals were stated and the network was not looked at
C26_NoGoals ==
  /\ GoalFitReturned
  /\ GoalsAsked = <<>>
  /\ Loaded # <<>>
  /\ result.out[1].type = "no_goals"


(***************************************************************************)
(* One import: the messages parse_messages attributes to each connection   *)
(***************************************************************************)

\* the most rows of a Connections.csv and of a Messages.csv here
MaxPeople == 3

MaxSent == 3

\* rows of Connections.csv: two people called Al Bo, an Al B-o, and a Cy Dee
PeopleRows ==
  { ConnRow(NameAl, NameBo, <<"X">>, <<>>),
    ConnRow(NameAl, NameBo, <<"V">>, <<>>),
    ConnRow(NameAl, <<"B", "-", "o">>, <<"Y">>, <<>>),
    ConnRow(<<"C", "y">>, <<"D", "e", "e">>, <<"W">>, <<>>) }

\* rows of Messages.csv: from Al Bo on two days, from Al with a date as
\* LinkedIn writes it, from Al B-o without a date, and without a sender
SentRows ==
  { MsgRow(NameAlBo, IsoJan15),
    MsgRow(NameAlBo, <<"0", "6", "/", "3", "0", "/", "2", "0", "2", "4">>),
    MsgRow(<<"A", "l", " ">>, RawUtc),
    MsgRow(NameAlB_o, <<>>),
    MsgRow(<<" ">>, IsoJan15) }

\* parse_connections over the rows of a Connections.csv
ParsePeople ==
  /\ pc = "new"
  /\ result = NoResult
  /\ \E rows \in SeqsUpTo(PeopleRows, MaxPeople) :
       /\ \A i, j \in 1..Len(rows) : i # j => rows[i] # rows[j]
       /\ conns' = ParseRows(conns, rows)
  /\ pc' = "connections"
  /\ UNCHANGED <<file, messages, origin, existing, preserve, goals, result>>

\* parse_messages over the rows of a Messages.csv: what it returns is the
\* number of rows with a sender
ParseSent ==
  /\ pc = "connections"
  /\ result = NoResult
  /\ \E rows \in SeqsUpTo(SentRows, MaxSent) :
       /\ messages' = AddMessages(messages, rows)
       /\ conns' = AttributeAll(conns, messages')
       /\ result' = [ op |-> "parse_messages", rows |-> rows, raised |-> FALSE,
                      out |-> SumOver(Len(rows),
                                      [i \in 1..Len(rows) |->
                                         IF Strip(rows[i].sender) = <<>> THEN 0 ELSE 1]) ]
  /\ pc' = "messages"
  /\ UNCHANGED <<file, origin, existing, preserve, goals>>

\* the next import gets a parser of its own
NextImport ==
  /\ pc = "messages"
  /\ conns' = <<>>
  /\ messages' = NoMessages
  /\ pc' = "new"
  /\ result' = NoResult
  /\ UNCHANGED <<file, origin, existing, preserve, goals>>

AttributionNext ==
  \/ ParsePeople
  \/ ParseSent
  \/ NextImport

AttributionSpec == Init /\ [][AttributionNext]_vars

MessagesParsed == result.op = "parse_messages"

\* the rows of the Messages.csv read whose sender is who
SentBy(who) ==
  LET From(row) == Strip(row.sender) = who
  IN  SelectSeq(result.rows, From)

\* the rows matched to a connection: those of its full name, or else those of
\* its first name
MatchedRows(conn) ==
  IF SentBy(conn.name) # <<>> THEN SentBy(conn.name) ELSE SentBy(conn.first_name)

\* the dates of rows, as parse_date gives them, of the rows that have one
DatesOf(rows) ==
  LET Dated(row) == Strip(row.date) # <<>>
      dated == SelectSeq(rows, Dated)
  IN  {parse_date(Strip(dated[k].date)).v : k \in 1..Len(dated)}

ExportedTags ==
  UNION {TagsOf(file.connections[i].domains.v) : i \in 1..Len(file.connections)}

\* the connections the export wrote that carry the tag
ExportedCarrying(tag) ==
  {i \in 1..Len(file.connections) : tag \in TagsOf(file.connections[i].domains.v)}

\* stats.total and stats.by_relationship are those of the connections written
CountsAgree ==
  /\ file.stats.total = Len(file.connections)
  /\ \A s \in {"cold", "warm", "close"} :
       file.stats.by_relationship[s] = CountStrength(file.connections, s)

\* C28: the stats of a snapshot written by an import agree with its connection
\* list: total is the number of exported connections, by_relationship the
\* number of each strength, by_domain for each domain tag the number of
\* exported connections carrying it, tags preserved from the existing
\* snapshot included
C28_StatsAgreeWithConnections ==
  pc = "exported" =>
    /\ CountsAgree
    /\ DOMAIN file.stats.by_domain = ExportedTags
    /\ \A tag \in ExportedTags : file.stats.by_domain[tag] = Cardinality(ExportedCarrying(tag))

\* what holds instead: total and by_relationship agree, and by_domain is
\* empty whatever tags the connections carry
C28_ByDomainEmpty ==
  pc = "exported" => (CountsAgree /\ DOMAIN file.stats.by_domain = {})

\* an export preserved a domain tag of the existing snapshot and wrote stats
\* that do not count it
C28_PreservedTagUncounted ==
  /\ pc = "exported"
  /\ preserve
  /\ <<"a", "i">> \in ExportedTags
  /\ file.stats.total > 0
  /\ DOMAIN file.stats.by_domain = {}


\* the message_count of all connections together
TotalAttributed == SumOver(Len(conns), [i \in 1..Len(conns) |-> conns[i].message_count.v])

C29_SharedFirstName ==
  /\ MessagesParsed
  /\ result.out = 1
  /\ \E i, j \in 1..Len(conns) :
       /\ conns[i].name # conns[j].name
       /\ conns[i].first_name = conns[j].first_name
       /\ conns[i].message_count = I(1)
       /\ conns[j].message_count = I(1)
  /\ TotalAttributed > result.out


(***************************************************************************)
(* generate_action_items: the cap and the stale actions                    *)
(***************************************************************************)

IsReconnect(x) == x.action = "Reconnect with"

IsMisalignedAction(x) == x.reason = "misaligned"

\* what stale_relationships() gives generate_action_items
StaleNow == stale_relationships(load_network(file), result.now.cutoff).out

\* C30: the cap never displaces a stale-relationship action: every "Reconnect
\* with" action collected (at most 3, all high, from the first three stale
\* insights) is in the list returned, ahead of every misalignment action
C30_StaleActionsKept ==
  ActionsReturned =>
    LET collected == SelectSeq(CollectedNow, IsReconnect)
        returned == SelectSeq(result.out, IsReconnect)
    IN  /\ returned = collected
        /\ Len(collected) <= 3
        /\ \A k \in 1..Len(collected) :
             /\ collected[k].priority = "high"
             /\ \E m \in 1..3 :
                  /\ m <= Len(StaleNow)
                  /\ StaleNow[m].priority = "high"
                  /\ collected[k].ref = StaleNow[m].connections[1]
        /\ \A i, j \in 1..Len(result.out) :
             (IsReconnect(result.out[i]) /\ result.out[j].reason = "misaligned") => i < j

\* more than 10 actions were collected, 3 of them for stale relationships and
\* 8 for misalignments; the 3 are returned first and a misalignment gave way
C30_Witness ==
  /\ ActionsReturned
  /\ Len(CollectedNow) > ActionCap
  /\ Len(SelectSeq(CollectedNow, IsReconnect)) = 3
  /\ Len(SelectSeq(CollectedNow, IsMisalignedAction)) = 8
  /\ \A k \in 1..3 : IsReconnect(result.out[k])
  /\ Len(SelectSeq(result.out, IsMisalignedAction)) = 7

====
